---- MODULE Spec2Model ----
(***************************************************************************)
(* Model of the configuration store of web_config.c (camera-rv1106):       *)
(* read_config_value, write_config_value and write_config_batch on the     *)
(* INI file /userdata/rkipc.ini, with the flock / temporary file / rename  *)
(* protocol the two writers share.                                         *)
(*                                                                         *)
(* A file is a sequence of characters (one-character strings); the text    *)
(* operators below work on characters the way fgets, sscanf, strchr,       *)
(* trim_string and fprintf do.                                             *)
(***************************************************************************)
EXTENDS Integers, Sequences, FiniteSets, TLC

VARIABLES
    \* ---- the file system and the callers of write_config_* (Spec) ----
    ino,        \* identity of the inode CONFIG_FILE names (fresh after every rename)
    file,       \* content of the inode CONFIG_FILE names
    held,       \* held[h]: inode h holds the flock on (0: none); h a caller or Ext
    pc,         \* pc[p]: position of caller p in write_config_value / _batch
    fd,         \* fd[p]: inode lock_fd refers to (0: closed)
    rbuf,       \* rbuf[p]: content of the inode fp was opened on
    tmp,        \* tmp[p]: content of CONFIG_FILE.tmp.<pid of p>, or NoFile
    ferr,       \* ferr[p]: error indicator of fp or out (ferror), never tested by the code
    rc,         \* rc[p]: the value the call returned (1, 0), -1 while it runs
    err,        \* err[p]: the system call whose failure ended the call ("" when none)
    req,        \* req[p]: [fn, entries] the call was made with
    acq,        \* callers in the order their flock(LOCK_EX) returned 0
    faults,     \* number of failing system calls injected so far
    \* ---- one caller, one document (SpecDoc) ----
    doc,        \* content of CONFIG_FILE
    prev,       \* content of CONFIG_FILE before the last write
    dreq,       \* the entries written
    dfn,        \* "value" (write_config_value) or "batch" (write_config_batch)
    napplied,   \* number of writes done
    \* ---- a caller of read_config_value (SpecRead) ----
    rd,         \* [section, key, ret, value]: the last read, its result and the caller's buffer
    nreads,     \* number of reads done
    \* ---- the main thread and the rkipc service (SpecSafe) ----
    sw,         \* position of the main thread: "boot", "stop_rkipc", "poll", "write",
                \* "start", "finish", "serve"
    caller,     \* "migrate" (check_and_migrate_config), "update" (handle_config_update), "none"
    updates,    \* the entries the caller writes (updates[], or the five of the migration)
    retries,    \* int retries of stop_rkipc
    service,    \* "running" or "absent": whether a process rkipc exists
    signals,    \* the signals the caller has sent to rkipc, in order ("TERM", "KILL")
    npolls,     \* calls of system("pgrep rkipc") the caller has made
    seen,       \* what the last pgrep reported: "present", "absent", "none" before the first
    nwritten,   \* calls of write_config_* of the caller that have returned
    nlaunched,  \* launches of rkipc by the caller
    marker,     \* whether /userdata/.migrated_v2.1_v8 exists
    success,    \* int success of handle_config_update (-1: none)
    reported,   \* what the response of handle_config_update says: 1 success, 0 failure (-1: none)
    nreq,       \* requests handled
    wfaults,    \* failed calls of write_config_*
    \* ---- a request and what handle_request makes of it (SpecParse, SpecRequest) ----
    request,    \* char buffer[8192] as recv filled it, up to buffer[n] = '\0'
    reqbody,    \* the body handle_config_update was called with
    parsed,     \* [done, updates]: updates[0 .. update_count - 1] once a body is parsed
    handler,    \* the handler handle_request called ("none" when it called none)
    response,   \* what was sent to the client ("none" before the first)
    \* ---- the starts of the program (SpecBoot) ----
    nboots,     \* starts of the program behind the first
    nmigrated,  \* starts in which check_and_migrate_config wrote a default
    \* ---- the video program: frame queue and threads (SpecVideo) ----
    frames,     \* frames[i]: q->frames[i].data, an address of the heap (0: NULL)
    read_idx,   \* q->read_idx
    write_idx,  \* q->write_idx
    active,     \* q->active
    g_running,  \* g_running (TRUE: 1)
    heap,       \* the addresses malloc returned and free has not been given
    tpc,        \* tpc[t]: position of thread t ("off": never created)
    waiters,    \* the consumers blocked in pthread_cond_wait(&q->cond, &q->mutex)
    popped,     \* popped[c]: frame.data of consumer c, the copy frame_queue_pop made (0: none)
    doublefree, \* free was given an address that is not allocated
    freedread,  \* memcpy read from an address that is not allocated
    dropped,    \* frame_queue_push found the queue full and dropped a frame
    \* ---- the JT/T 1078 encoder (SpecJtt) ----
    packet_seq,     \* encoder->packet_seq (uint16_t)
    vframe,         \* the frame of the call in progress or of the last call
    remaining,      \* remaining (uint32_t)
    offset,         \* offset (uint32_t)
    packet_count,   \* packet_count
    total_packets,  \* total_packets
    packets,        \* every packet jtt1078_create_packet built, in order, with
                    \* the frame it belongs to and whether the callback took it
    jret,           \* the value the last call returned (NoReturn before the first)
    jpc,            \* "idle", or "loop" inside the while of jtt1078_encode_video_frame
    nframes         \* calls of jtt1078_encode_video_frame so far

vars == <<ino, file, held, pc, fd, rbuf, tmp, ferr, rc, err, req, acq, faults,
          doc, prev, dreq, dfn, napplied, rd, nreads,
          sw, caller, updates, retries, service, signals, npolls, seen, nwritten,
          nlaunched, marker, success, reported, nreq, wfaults,
          request, reqbody, parsed, handler, response, nboots, nmigrated,
          frames, read_idx, write_idx, active, g_running, heap, tpc, waiters, popped, doublefree, freedread, dropped,
          packet_seq, vframe, remaining, offset, packet_count, total_packets, packets, jret, jpc, nframes>>

procVars == <<ino, file, held, pc, fd, rbuf, tmp, ferr, rc, err, req, acq, faults>>
docVars == <<doc, prev, dreq, dfn, napplied>>
readVars == <<rd, nreads>>
safeVars == <<sw, caller, updates, retries, service, signals, npolls, seen, nwritten,
              nlaunched, marker, success, reported, nreq, wfaults>>
reqVars == <<request, reqbody, parsed, handler, response>>
bootVars == <<nboots, nmigrated>>
videoVars == <<frames, read_idx, write_idx, active, g_running, heap, tpc, waiters, popped,
               doublefree, freedread, dropped>>
jttVars == <<packet_seq, vframe, remaining, offset, packet_count, total_packets, packets,
             jret, jpc, nframes>>

----------------------------------------------------------------------------
(* Bounds *)

MaxLines == 3       \* lines of a document drawn by InitDoc
MaxBatch == 3       \* entries of a batch
NumProcs == 3       \* concurrent callers
MaxFaults == 1      \* failing system calls per behaviour
MaxWrites == 2      \* successive writes of the same entries to one document
MaxReads == 2       \* reads of one document
MaxRequests == 1    \* requests /api/config/update the server handles
MaxUpdates == 2     \* entries of one request
MaxPairs == 3       \* key=value pairs of a request body
MaxReqPairs == 1    \* the same for the bodies of the requests of SpecRequest
MaxBoots == 2       \* starts of the program behind the first
BodyPad == 8        \* characters of body_copy behind the body that the model keeps
QueueCapacity == 2  \* q->capacity (VIDEO_FPS * 2 in main)
MaxAddrs == 3       \* addresses malloc can return; behind them it returns NULL

MaxChunks == 3      \* a frame fills at most this many packets
MaxFrames == 2      \* calls of jtt1078_encode_video_frame in one behaviour

NoFrame == [size |-> 0, data |-> <<>>, is_keyframe |-> FALSE, frame_type |-> 0]
NoReturn == -2

Consumers == {"rtsp", "record"}
Threads == {"main", "camera"} \cup Consumers
Addrs == 1..MaxAddrs

----------------------------------------------------------------------------
(* Characters and strings *)

NL == "\n"
CR == "\r"
TAB == "\t"
SP == " "
LINE_SIZE == 512    \* char line[512]
SECTION_WIDTH == 127 \* "[%127[^]]]"

Min(a, b) == IF a < b THEN a ELSE b

\* F(v), with v evaluated once: TLC evaluates the argument of an operator each
\* time the operator's body uses it when it evaluates ENABLED.
Bind(v, F(_)) == CHOOSE r \in { F(x) : x \in {v} } : TRUE

\* The first index of character c in s, 0 when absent (strchr / strcspn).
IndexOf(s, c) ==
    IF \E i \in 1..Len(s) : s[i] = c
    THEN CHOOSE i \in 1..Len(s) : s[i] = c /\ \A j \in 1..(i - 1) : s[j] # c
    ELSE 0

\* The first index of a character of set cs in s, Len(s)+1 when none (strcspn + 1).
SpanEnd(s, cs) ==
    IF \E i \in 1..Len(s) : s[i] \in cs
    THEN CHOOSE i \in 1..Len(s) : s[i] \in cs /\ \A j \in 1..(i - 1) : s[j] \notin cs
    ELSE Len(s) + 1

RECURSIVE TrimLead(_)
TrimLead(s) ==
    IF s # <<>> /\ s[1] \in {SP, TAB} THEN TrimLead(Tail(s)) ELSE s

RECURSIVE TrimTrail(_)
TrimTrail(s) ==
    IF s # <<>> /\ s[Len(s)] \in {SP, TAB, CR, NL}
    THEN TrimTrail(SubSeq(s, 1, Len(s) - 1))
    ELSE s

trim_string(s) == TrimTrail(TrimLead(s))

\* One fgets(line, sizeof(line), fp): the length of the line it returns on f # <<>>.
FGetsLen(f) ==
    LET n == IndexOf(f, NL)
    IN  Min(IF n = 0 THEN Len(f) ELSE n, LINE_SIZE - 1)

\* The lines the loop while (fgets(...)) sees, each with its newline if it has one.
RECURSIVE FGetsLines(_)
FGetsLines(f) ==
    IF f = <<>> THEN <<>>
    ELSE Bind(FGetsLen(f),
              LAMBDA n : <<SubSeq(f, 1, n)>>
                         \o Bind(SubSeq(f, n + 1, Len(f)), LAMBDA rest : FGetsLines(rest)))

\* sscanf(line, "[%127[^]]]", current_section); trim_string(current_section):
\* line[0] is '['; the scanset takes the characters up to the first ']' (at
\* most 127); when it matches nothing current_section keeps its old value.
ScanSection(line, current_section) ==
    LET rest == Tail(line)
        body == SubSeq(rest, 1, Min(SpanEnd(rest, {"]"}) - 1, SECTION_WIDTH))
    IN  trim_string(IF body = <<>> THEN current_section ELSE body)

IsHeader(line) == line # <<>> /\ line[1] = "["
HasEq(line) == IndexOf(line, "=") # 0
\* file_key: the text before the first '=', trimmed.
FileKey(line) == trim_string(SubSeq(line, 1, IndexOf(line, "=") - 1))
\* What FileValue must not be: the text after the first '=' as it stands.
FileValue_Untrimmed(line) == SubSeq(line, IndexOf(line, "=") + 1, Len(line))
\* file_value: the text after the first '=', trimmed.
FileValue(line) == trim_string(SubSeq(line, IndexOf(line, "=") + 1, Len(line)))

\* fprintf(out, "%s = %s\n", key, value)
KeyValueLine(key, value) == key \o <<SP, "=", SP>> \o value \o <<NL>>
\* fprintf(out, "\n[%s]\n%s = %s\n", section, key, value)
NewSection(section, key, value) ==
    <<NL, "[">> \o section \o <<"]", NL>> \o KeyValueLine(key, value)

----------------------------------------------------------------------------
(* read_config_value *)

\* The loop of read_config_value over the lines left; value is the caller's
\* buffer, written only on a match. The result is [ret, value]: the int the
\* function returns and the buffer when it returns.
RECURSIVE ReadLoop(_, _, _, _, _, _)
ReadLoop(lines, current_section, in_section, section, key, value) ==
    IF lines = <<>> THEN [ret |-> 0, value |-> value]
    ELSE LET raw == Head(lines)
             line == SubSeq(raw, 1, SpanEnd(raw, {CR, NL}) - 1)
         IN  IF IsHeader(line)
             THEN LET cs == ScanSection(line, current_section)
                  IN  ReadLoop(Tail(lines), cs, cs = section, section, key, value)
             ELSE IF in_section /\ HasEq(line) /\ FileKey(line) = key
                  THEN [ret |-> 1, value |-> FileValue(line)]
                  ELSE ReadLoop(Tail(lines), current_section, in_section,
                                section, key, value)

read_config_value(f, section, key, value) ==
    ReadLoop(FGetsLines(f), <<>>, FALSE, section, key, value)

----------------------------------------------------------------------------
(* write_config_value: the text it writes to the temporary file *)

WVInit ==
    [current_section |-> <<>>, in_section |-> FALSE, key_updated |-> FALSE,
     section_found |-> FALSE, out |-> <<>>]

WVLine(st, line, section, key, new_value) ==
    IF line[1] = "["
    THEN LET append == st.in_section /\ ~st.key_updated
             cs == ScanSection(line, st.current_section)
         IN  [current_section |-> cs,
              in_section |-> (cs = section),
              key_updated |-> (st.key_updated \/ append),
              section_found |-> (st.section_found \/ cs = section),
              out |-> st.out
                      \o (IF append THEN KeyValueLine(key, new_value) ELSE <<>>)
                      \o line]
    ELSE IF st.in_section /\ ~st.key_updated /\ HasEq(line) /\ FileKey(line) = key
         THEN [st EXCEPT !.out = @ \o KeyValueLine(key, new_value),
                         !.key_updated = TRUE]
         ELSE [st EXCEPT !.out = @ \o line]

RECURSIVE WVLoop(_, _, _, _, _)
WVLoop(st, lines, section, key, new_value) ==
    IF lines = <<>> THEN st
    ELSE Bind(WVLine(st, Head(lines), section, key, new_value),
              LAMBDA nx : WVLoop(nx, Tail(lines), section, key, new_value))

WVEnd(st, section, key, new_value) ==
    IF st.in_section /\ ~st.key_updated
    THEN st.out \o KeyValueLine(key, new_value)
    ELSE IF ~st.section_found
         THEN st.out \o NewSection(section, key, new_value)
         ELSE st.out

write_config_value(f, section, key, new_value) ==
    Bind(FGetsLines(f),
         LAMBDA lines : Bind(WVLoop(WVInit, lines, section, key, new_value),
                             LAMBDA st : WVEnd(st, section, key, new_value)))

----------------------------------------------------------------------------
(* write_config_batch: the text it writes to the temporary file *)

\* for (i = 0; i < count; i++) if (!updated && section == current_section) ...
RECURSIVE AppendMissing(_, _, _, _)
AppendMissing(st, entries, i, current_section) ==
    IF i > Len(entries) THEN st
    ELSE IF ~st.updated[i] /\ entries[i].section = current_section
         THEN AppendMissing(
                  [st EXCEPT !.out = @ \o KeyValueLine(entries[i].key, entries[i].value),
                             !.updated[i] = TRUE],
                  entries, i + 1, current_section)
         ELSE AppendMissing(st, entries, i + 1, current_section)

\* What MatchIdx must not be: it takes the first entry for the key whatever
\* its section.
MatchIdx_AnySection(entries, current_section, file_key) ==
    LET hits == {i \in 1..Len(entries) : entries[i].key = file_key}
    IN  IF hits = {} THEN 0
        ELSE CHOOSE i \in hits : \A j \in hits : i <= j

\* match_idx: the first entry for (current_section, file_key), 0 when none.
MatchIdx(entries, current_section, file_key) ==
    LET hits == {i \in 1..Len(entries) :
                    entries[i].section = current_section /\ entries[i].key = file_key}
    IN  IF hits = {} THEN 0
        ELSE CHOOSE i \in hits : \A j \in hits : i <= j

WBInit(entries) ==
    [current_section |-> <<>>, in_section |-> FALSE,
     updated |-> [i \in 1..Len(entries) |-> FALSE], out |-> <<>>]

WBLine(st, line, entries) ==
    IF line[1] = "["
    THEN LET s1 == IF st.in_section
                   THEN AppendMissing(st, entries, 1, st.current_section)
                   ELSE st
         IN  [s1 EXCEPT !.current_section = ScanSection(line, st.current_section),
                        !.in_section = TRUE,
                        !.out = @ \o line]
    ELSE LET m == IF st.in_section /\ HasEq(line)
                  THEN MatchIdx(entries, st.current_section, FileKey(line))
                  ELSE 0
         IN  IF m > 0
             THEN [st EXCEPT !.out = @ \o KeyValueLine(entries[m].key, entries[m].value),
                             !.updated[m] = TRUE]
             ELSE [st EXCEPT !.out = @ \o line]

RECURSIVE WBLoop(_, _, _)
WBLoop(st, lines, entries) ==
    IF lines = <<>> THEN st
    ELSE Bind(WBLine(st, Head(lines), entries),
              LAMBDA nx : WBLoop(nx, Tail(lines), entries))

\* Handle completely missing sections: the outer loop over i, the inner over j > i.
RECURSIVE SameSection(_, _, _, _)
SameSection(st, entries, i, j) ==
    IF j > Len(entries) THEN st
    ELSE IF ~st.updated[j] /\ entries[j].section = entries[i].section
         THEN SameSection(
                  [st EXCEPT !.out = @ \o KeyValueLine(entries[j].key, entries[j].value),
                             !.updated[j] = TRUE],
                  entries, i, j + 1)
         ELSE SameSection(st, entries, i, j + 1)

RECURSIVE MissingSections(_, _, _)
MissingSections(st, entries, i) ==
    IF i > Len(entries) THEN st
    ELSE IF ~st.updated[i]
         THEN MissingSections(
                  SameSection(
                      [st EXCEPT !.out = @ \o NewSection(entries[i].section,
                                                         entries[i].key, entries[i].value),
                                 !.updated[i] = TRUE],
                      entries, i, i + 1),
                  entries, i + 1)
         ELSE MissingSections(st, entries, i + 1)

WBEnd(st, entries) ==
    LET s1 == IF st.in_section
              THEN AppendMissing(st, entries, 1, st.current_section)
              ELSE st
    IN  MissingSections(s1, entries, 1).out

write_config_batch(f, entries) ==
    Bind(FGetsLines(f),
         LAMBDA lines : Bind(WBLoop(WBInit(entries), lines, entries),
                             LAMBDA st : WBEnd(st, entries)))

\* What a call with request r writes for the content f it reads.
Transform(f, r) ==
    IF r.fn = "value"
    THEN write_config_value(f, r.entries[1].section, r.entries[1].key, r.entries[1].value)
    ELSE write_config_batch(f, r.entries)

----------------------------------------------------------------------------
(* The inputs: documents, entries, callers *)

Sections == {<<"a">>, <<"b">>}
Keys == {<<"x">>, <<"y">>}

\* The texts of a line: two headers, a key-value line in canonical form, one
\* without blanks around '=', a comment.
LineText ==
    { <<"[", "a", "]">>, <<"[", "b", "]">>,
      <<"x", SP, "=", SP, "0">>, <<"y", "=", "0">>, <<"#">> }

RECURSIVE JoinLines(_, _)
JoinLines(ls, finalNL) ==
    IF ls = <<>> THEN <<>>
    ELSE IF Len(ls) = 1 THEN Head(ls) \o (IF finalNL THEN <<NL>> ELSE <<>>)
         ELSE Head(ls) \o <<NL>> \o JoinLines(Tail(ls), finalNL)

\* Every document of at most MaxLines lines, with and without a final newline.
Documents ==
    { JoinLines(ls, nl) :
        ls \in UNION { [1..n -> LineText] : n \in 0..MaxLines }, nl \in BOOLEAN }

Entry(s, k, v) == [section |-> s, key |-> k, value |-> v]

\* Every batch of at most MaxBatch entries; the i-th entry carries the value "i".
Batches ==
    { [i \in DOMAIN sk |-> Entry(sk[i][1], sk[i][2], <<ToString(i)>>)] :
        sk \in UNION { [1..n -> Sections \X Keys] : n \in 1..MaxBatch } }

Procs == 1..NumProcs
Ext == 0                    \* a process other than the callers that takes the flock
NoFile == <<"NoFile">>
Default == <<"d">>          \* what a caller of read_config_value puts in its buffer
NoReq == [fn |-> "none", entries |-> <<>>]

\* The document the callers of Spec start from.
StartDoc == JoinLines(<<(<<"[", "a", "]">>), (<<"x", SP, "=", SP, "0">>)>>, TRUE)

ProcQuiet ==
    /\ ino = 1
    /\ file = StartDoc
    /\ held = [h \in Procs \cup {Ext} |-> 0]
    /\ pc = [p \in Procs |-> "idle"]
    /\ fd = [p \in Procs |-> 0]
    /\ rbuf = [p \in Procs |-> <<>>]
    /\ tmp = [p \in Procs |-> NoFile]
    /\ ferr = [p \in Procs |-> FALSE]
    /\ rc = [p \in Procs |-> -1]
    /\ err = [p \in Procs |-> ""]
    /\ req = [p \in Procs |-> NoReq]
    /\ acq = <<>>
    /\ faults = 0

DocQuiet ==
    /\ doc = <<>>
    /\ prev = <<>>
    /\ dreq = <<>>
    /\ dfn = "none"
    /\ napplied = 0

NoRead == [section |-> <<>>, key |-> <<>>, ret |-> -1, value |-> <<>>]

ReadQuiet ==
    /\ rd = NoRead
    /\ nreads = 0

NotParsed == [done |-> FALSE, updates |-> <<>>]

BootQuiet ==
    /\ nboots = 0
    /\ nmigrated = 0

\* The encoder as jtt1078_encoder_init leaves it, no frame encoded.
JttQuiet ==
    /\ packet_seq = 0
    /\ vframe = NoFrame
    /\ remaining = 0
    /\ offset = 0
    /\ packet_count = 0
    /\ total_packets = 0
    /\ packets = <<>>
    /\ jret = NoReturn
    /\ jpc = "idle"
    /\ nframes = 0

\* The video program is not running: the queue as frame_queue_init leaves it,
\* no thread created.
VideoQuiet ==
    /\ frames = [i \in 0..(QueueCapacity - 1) |-> 0]
    /\ read_idx = 0
    /\ write_idx = 0
    /\ active = TRUE
    /\ g_running = TRUE
    /\ heap = {}
    /\ tpc = [t \in Threads |-> "off"]
    /\ waiters = {}
    /\ popped = [c \in Consumers |-> 0]
    /\ doublefree = FALSE
    /\ freedread = FALSE
    /\ dropped = FALSE

ReqQuiet ==
    /\ request = <<>>
    /\ reqbody = <<>>
    /\ parsed = NotParsed
    /\ handler = "none"
    /\ response = "none"

SafeQuiet ==
    /\ sw = "off"
    /\ caller = "none"
    /\ updates = <<>>
    /\ retries = 0
    /\ service = "absent"
    /\ signals = <<>>
    /\ npolls = 0
    /\ seen = "none"
    /\ nwritten = 0
    /\ nlaunched = 0
    /\ marker = FALSE
    /\ success = -1
    /\ reported = -1
    /\ nreq = 0
    /\ wfaults = 0

----------------------------------------------------------------------------
(* Spec: NumProcs processes call write_config_value / write_config_batch    *)
(* on the same CONFIG_FILE, one system call per step.                       *)

\* What caller p may be asked to write; its values carry its own number.
Requests(p) ==
    { [fn |-> "value", entries |-> <<Entry(<<"a">>, <<"x">>, <<ToString(p)>>)>>],
      [fn |-> "batch", entries |-> <<Entry(<<"a">>, <<"y">>, <<ToString(p)>>),
                                     Entry(<<"b">>, <<"x">>, <<ToString(p)>>)>>] }

\* The proper prefixes of f that end with a line: what is read before fgets
\* fails, or what reaches the temporary file before a write fails.
RECURSIVE Concat(_)
Concat(ls) == IF ls = <<>> THEN <<>> ELSE Head(ls) \o Concat(Tail(ls))

Cuts(f) == { Concat(SubSeq(FGetsLines(f), 1, n)) : n \in 0..(Len(FGetsLines(f)) - 1) }

\* flock(lock_fd, LOCK_EX) of a caller whose lock_fd is on inode i returns
\* once no other open file description holds the lock of i.
LockFree(h, i) == \A o \in (Procs \cup {Ext}) \ {h} : held[o] # i

Init == ProcQuiet /\ BootQuiet /\ VideoQuiet /\ JttQuiet /\ DocQuiet /\ ReadQuiet /\ SafeQuiet /\ ReqQuiet

Call(p) ==
    /\ pc[p] = "idle"
    /\ \E r \in Requests(p) : req' = [req EXCEPT ![p] = r]
    /\ pc' = [pc EXCEPT ![p] = "open"]
    /\ UNCHANGED <<ino, file, held, fd, rbuf, tmp, ferr, rc, err, acq, faults, docVars, readVars, safeVars, reqVars, bootVars, videoVars, jttVars>>

\* lock_fd = open(CONFIG_FILE, O_RDONLY)
Open(p) ==
    /\ pc[p] = "open"
    /\ fd' = [fd EXCEPT ![p] = ino]
    /\ pc' = [pc EXCEPT ![p] = "flock"]
    /\ UNCHANGED <<ino, file, held, rbuf, tmp, ferr, rc, err, req, acq, faults, docVars, readVars, safeVars, reqVars, bootVars, videoVars, jttVars>>

\* if (lock_fd < 0) return 0;
OpenFail(p) ==
    /\ pc[p] = "open"
    /\ faults < MaxFaults
    /\ faults' = faults + 1
    /\ rc' = [rc EXCEPT ![p] = 0]
    /\ err' = [err EXCEPT ![p] = "open"]
    /\ pc' = [pc EXCEPT ![p] = "done"]
    /\ UNCHANGED <<ino, file, held, fd, rbuf, tmp, ferr, req, acq, docVars, readVars, safeVars, reqVars, bootVars, videoVars, jttVars>>

\* flock(lock_fd, LOCK_EX) returns 0: it blocks while another holds the lock.
FlockAcquire(p) ==
    /\ pc[p] = "flock"
    /\ LockFree(p, fd[p])
    /\ held' = [held EXCEPT ![p] = fd[p]]
    /\ acq' = Append(acq, p)
    /\ pc' = [pc EXCEPT ![p] = "fopen_r"]
    /\ UNCHANGED <<ino, file, fd, rbuf, tmp, ferr, rc, err, req, faults, docVars, readVars, safeVars, reqVars, bootVars, videoVars, jttVars>>

\* if (flock(lock_fd, LOCK_EX) < 0) { close(lock_fd); return 0; }
FlockFail(p) ==
    /\ pc[p] = "flock"
    /\ faults < MaxFaults
    /\ faults' = faults + 1
    /\ fd' = [fd EXCEPT ![p] = 0]
    /\ rc' = [rc EXCEPT ![p] = 0]
    /\ err' = [err EXCEPT ![p] = "flock"]
    /\ pc' = [pc EXCEPT ![p] = "done"]
    /\ UNCHANGED <<ino, file, held, rbuf, tmp, ferr, req, acq, docVars, readVars, safeVars, reqVars, bootVars, videoVars, jttVars>>

\* fp = fopen(CONFIG_FILE, "r"): the inode the path names now.
FopenR(p) ==
    /\ pc[p] = "fopen_r"
    /\ rbuf' = [rbuf EXCEPT ![p] = file]
    /\ pc' = [pc EXCEPT ![p] = "fopen_w"]
    /\ UNCHANGED <<ino, file, held, fd, tmp, ferr, rc, err, req, acq, faults, docVars, readVars, safeVars, reqVars, bootVars, videoVars, jttVars>>

\* A failing fopen that returns with the lock held and lock_fd open: what
\* FopenRFail must not be.
FopenRFail_KeepsLock(p) ==
    /\ pc[p] = "fopen_r"
    /\ faults < MaxFaults
    /\ faults' = faults + 1
    /\ rc' = [rc EXCEPT ![p] = 0]
    /\ err' = [err EXCEPT ![p] = "fopen_r"]
    /\ pc' = [pc EXCEPT ![p] = "done"]
    /\ UNCHANGED <<ino, file, held, fd, rbuf, tmp, ferr, req, acq, docVars, readVars, safeVars, reqVars, bootVars, videoVars, jttVars>>

\* if (!fp) { flock(lock_fd, LOCK_UN); close(lock_fd); return 0; }
FopenRFail(p) ==
    /\ pc[p] = "fopen_r"
    /\ faults < MaxFaults
    /\ faults' = faults + 1
    /\ held' = [held EXCEPT ![p] = 0]
    /\ fd' = [fd EXCEPT ![p] = 0]
    /\ rc' = [rc EXCEPT ![p] = 0]
    /\ err' = [err EXCEPT ![p] = "fopen_r"]
    /\ pc' = [pc EXCEPT ![p] = "done"]
    /\ UNCHANGED <<ino, file, rbuf, tmp, ferr, req, acq, docVars, readVars, safeVars, reqVars, bootVars, videoVars, jttVars>>

\* out = fopen(temp_file, "w"): CONFIG_FILE.tmp.<pid>, created empty.
FopenW(p) ==
    /\ pc[p] = "fopen_w"
    /\ tmp' = [tmp EXCEPT ![p] = <<>>]
    /\ pc' = [pc EXCEPT ![p] = "copy"]
    /\ UNCHANGED <<ino, file, held, fd, rbuf, ferr, rc, err, req, acq, faults, docVars, readVars, safeVars, reqVars, bootVars, videoVars, jttVars>>

\* A writer that opens CONFIG_FILE itself for writing, so that a failing fopen
\* leaves it truncated: what FopenWFail must not be.
FopenWFail_Truncating(p) ==
    /\ pc[p] = "fopen_w"
    /\ faults < MaxFaults
    /\ faults' = faults + 1
    /\ file' = <<>>
    /\ held' = [held EXCEPT ![p] = 0]
    /\ fd' = [fd EXCEPT ![p] = 0]
    /\ rc' = [rc EXCEPT ![p] = 0]
    /\ err' = [err EXCEPT ![p] = "fopen_w"]
    /\ pc' = [pc EXCEPT ![p] = "done"]
    /\ UNCHANGED <<ino, rbuf, tmp, ferr, req, acq, docVars, readVars, safeVars, reqVars, bootVars, videoVars, jttVars>>

\* A failing rename that leaves the temporary file behind (no unlink): what
\* RenameFail must not be.
RenameFail_NoUnlink(p) ==
    /\ pc[p] = "rename"
    /\ faults < MaxFaults
    /\ faults' = faults + 1
    /\ held' = [held EXCEPT ![p] = 0]
    /\ fd' = [fd EXCEPT ![p] = 0]
    /\ rc' = [rc EXCEPT ![p] = 0]
    /\ err' = [err EXCEPT ![p] = "rename"]
    /\ pc' = [pc EXCEPT ![p] = "done"]
    /\ UNCHANGED <<ino, file, rbuf, tmp, ferr, req, acq, docVars, readVars, safeVars, reqVars, bootVars, videoVars, jttVars>>

\* if (!out) { fclose(fp); flock(lock_fd, LOCK_UN); close(lock_fd); return 0; }
FopenWFail(p) ==
    /\ pc[p] = "fopen_w"
    /\ faults < MaxFaults
    /\ faults' = faults + 1
    /\ held' = [held EXCEPT ![p] = 0]
    /\ fd' = [fd EXCEPT ![p] = 0]
    /\ rc' = [rc EXCEPT ![p] = 0]
    /\ err' = [err EXCEPT ![p] = "fopen_w"]
    /\ pc' = [pc EXCEPT ![p] = "done"]
    /\ UNCHANGED <<ino, file, rbuf, tmp, ferr, req, acq, docVars, readVars, safeVars, reqVars, bootVars, videoVars, jttVars>>

\* The loop over fgets, the end-of-file cases, fclose(fp), fclose(out).
Copy(p) ==
    /\ pc[p] = "copy"
    /\ tmp' = [tmp EXCEPT ![p] = Transform(rbuf[p], req[p])]
    /\ pc' = [pc EXCEPT ![p] = "rename"]
    /\ UNCHANGED <<ino, file, held, fd, rbuf, ferr, rc, err, req, acq, faults, docVars, readVars, safeVars, reqVars, bootVars, videoVars, jttVars>>

\* The same with a read error (fgets returns NULL before the end of the file)
\* or a write error (fputs / fprintf / fclose fail, e.g. ENOSPC): the results
\* of fgets are taken for the end of the file, those of the writes are not
\* looked at, so the call goes on to rename.
CopyFault(p) ==
    /\ pc[p] = "copy"
    /\ faults < MaxFaults
    /\ faults' = faults + 1
    /\ \E t \in {Transform(r, req[p]) : r \in Cuts(rbuf[p])}
               \cup Cuts(Transform(rbuf[p], req[p])) :
           tmp' = [tmp EXCEPT ![p] = t]
    /\ ferr' = [ferr EXCEPT ![p] = TRUE]
    /\ pc' = [pc EXCEPT ![p] = "rename"]
    /\ UNCHANGED <<ino, file, held, fd, rbuf, rc, err, req, acq, docVars, readVars, safeVars, reqVars, bootVars, videoVars, jttVars>>

\* rename(temp_file, CONFIG_FILE) == 0: the path names the temporary file's inode.
RenameOK(p) ==
    /\ pc[p] = "rename"
    /\ file' = tmp[p]
    /\ ino' = ino + 1
    /\ tmp' = [tmp EXCEPT ![p] = NoFile]
    /\ pc' = [pc EXCEPT ![p] = "unlock"]
    /\ UNCHANGED <<held, fd, rbuf, ferr, rc, err, req, acq, faults, docVars, readVars, safeVars, reqVars, bootVars, videoVars, jttVars>>

\* if (rename(...) != 0) { unlink(temp_file); flock(LOCK_UN); close(lock_fd); return 0; }
RenameFail(p) ==
    /\ pc[p] = "rename"
    /\ faults < MaxFaults
    /\ faults' = faults + 1
    /\ tmp' = [tmp EXCEPT ![p] = NoFile]
    /\ held' = [held EXCEPT ![p] = 0]
    /\ fd' = [fd EXCEPT ![p] = 0]
    /\ rc' = [rc EXCEPT ![p] = 0]
    /\ err' = [err EXCEPT ![p] = "rename"]
    /\ pc' = [pc EXCEPT ![p] = "done"]
    /\ UNCHANGED <<ino, file, rbuf, ferr, req, acq, docVars, readVars, safeVars, reqVars, bootVars, videoVars, jttVars>>

\* flock(lock_fd, LOCK_UN); close(lock_fd); return 1;
Unlock(p) ==
    /\ pc[p] = "unlock"
    /\ held' = [held EXCEPT ![p] = 0]
    /\ fd' = [fd EXCEPT ![p] = 0]
    /\ rc' = [rc EXCEPT ![p] = 1]
    /\ pc' = [pc EXCEPT ![p] = "done"]
    /\ UNCHANGED <<ino, file, rbuf, tmp, ferr, err, req, acq, faults, docVars, readVars, safeVars, reqVars, bootVars, videoVars, jttVars>>

\* Another process takes the advisory lock of CONFIG_FILE ...
ExtLock ==
    /\ held[Ext] = 0
    /\ LockFree(Ext, ino)
    /\ held' = [held EXCEPT ![Ext] = ino]
    /\ UNCHANGED <<ino, file, pc, fd, rbuf, tmp, ferr, rc, err, req, acq, faults, docVars, readVars, safeVars, reqVars, bootVars, videoVars, jttVars>>

\* ... and releases it, if it ever does.
ExtUnlock ==
    /\ held[Ext] # 0
    /\ held' = [held EXCEPT ![Ext] = 0]
    /\ UNCHANGED <<ino, file, pc, fd, rbuf, tmp, ferr, rc, err, req, acq, faults, docVars, readVars, safeVars, reqVars, bootVars, videoVars, jttVars>>

\* The steps of p in which the system call it is at returns without error.
Proceed(p) ==
    \/ Open(p) \/ FlockAcquire(p) \/ FopenR(p) \/ FopenW(p)
    \/ Copy(p) \/ RenameOK(p) \/ Unlock(p)

\* The steps of p in which it fails.
Fail(p) ==
    \/ OpenFail(p) \/ FlockFail(p) \/ FopenRFail(p) \/ FopenWFail(p)
    \/ CopyFault(p) \/ RenameFail(p)

Next == \E p \in Procs : Call(p) \/ Proceed(p) \/ Fail(p)

Spec == Init /\ [][Next]_vars

\* The callers beside a process that holds the lock for as long as it likes.
\* A caller that has been called runs: the system call it is at returns when
\* it can, and a caller blocked in flock gets the lock if the lock is free
\* again and again. Nothing makes a call fail, a caller call, or Ext unlock.
NextExt == Next \/ ExtLock \/ ExtUnlock

SpecFair ==
    Init /\ [][NextExt]_vars
         /\ \A p \in Procs : WF_vars(Proceed(p)) /\ SF_vars(FlockAcquire(p))

----------------------------------------------------------------------------
(* Claims C1 .. C6, checked under Spec (C6 under SpecFair) *)

\* Caller p holds the lock it asked for and has not yet renamed its temporary file.
InCritical(p) == pc[p] \in {"fopen_r", "fopen_w", "copy", "rename"}

\* C1 (mutual exclusion): at most one caller at a time is between acquiring
\* the exclusive lock and completing its rename, whenever each caller opened
\* the file.
C1_MutualExclusion ==
    \A p, q \in Procs : (p # q) => ~(InCritical(p) /\ InCritical(q))

\* The file after the calls of the callers in order, one after the other.
RECURSIVE ApplyInOrder(_, _)
ApplyInOrder(f, order) ==
    IF order = <<>> THEN f
    ELSE ApplyInOrder(Transform(f, req[Head(order)]), Tail(order))

\* C2 (no lost update): when all the concurrent calls have returned Success
\* (and no stream had an error), the file is what the calls give when applied
\* one after another in lock-acquisition order.
C2_SerialInLockOrder ==
    (\A p \in Procs : rc[p] = 1 /\ ~ferr[p]) => file = ApplyInOrder(StartDoc, acq)

\* C3 (failure before the rename): a call returns Success only from behind its
\* completed rename; a call that fails to open the file, to lock it or to
\* create the temporary file returns Failure and leaves the configuration
\* file as it is; and nothing but a completed rename changes the file.
C3_SuccessOnlyAfterRename ==
    [][\A p \in Procs :
          /\ (rc'[p] = 1 /\ rc[p] # 1) => (pc[p] = "unlock" /\ tmp[p] = NoFile)
          /\ (err'[p] \in {"open", "flock", "fopen_r", "fopen_w"} /\ err[p] = "")
                => (rc'[p] = 0 /\ file' = file /\ ino' = ino)
          /\ (pc[p] # "rename" /\ pc'[p] # pc[p]) => (file' = file /\ ino' = ino)
      ]_vars

C3_Witness ==
    \E p, q \in Procs :
        /\ rc[p] = 0 /\ err[p] \in {"open", "flock", "fopen_w"}
        /\ rc[q] = 1 /\ file # StartDoc

C5_NoPartialReplace ==
    [][\A p \in Procs :
          ferr[p] => /\ (pc[p] = "rename" => file' = file)
                     /\ rc'[p] # 1
      ]_vars

\* C6 (bounded lock wait): a call that finds the lock held does not wait at
\* flock for ever: it leaves flock (with LockTimeout) after a bounded wait.
C6_LockWaitEnds ==
    \A p \in Procs : (pc[p] = "flock") ~> (pc[p] # "flock")

----------------------------------------------------------------------------
(* SpecDoc: one caller writes the same entries to a document, repeatedly;   *)
(* every system call succeeds, so the temporary file replaces the document. *)

InitDoc ==
    /\ ProcQuiet /\ BootQuiet /\ VideoQuiet /\ JttQuiet
    /\ ReadQuiet
    /\ SafeQuiet
    /\ ReqQuiet
    /\ doc \in Documents
    /\ prev = doc
    /\ dreq \in Batches
    /\ dfn = "none"
    /\ napplied = 0

DocWriteValue ==
    /\ napplied < MaxWrites
    /\ Len(dreq) = 1
    /\ dfn \in {"none", "value"}
    /\ prev' = doc
    /\ doc' = write_config_value(doc, dreq[1].section, dreq[1].key, dreq[1].value)
    /\ dfn' = "value"
    /\ napplied' = napplied + 1
    /\ UNCHANGED <<dreq, procVars, readVars, safeVars, reqVars, bootVars, videoVars, jttVars>>

DocWriteBatch ==
    /\ napplied < MaxWrites
    /\ dfn \in {"none", "batch"}
    /\ prev' = doc
    /\ doc' = write_config_batch(doc, dreq)
    /\ dfn' = "batch"
    /\ napplied' = napplied + 1
    /\ UNCHANGED <<dreq, procVars, readVars, safeVars, reqVars, bootVars, videoVars, jttVars>>

NextDoc == DocWriteValue \/ DocWriteBatch

SpecDoc == InitDoc /\ [][NextDoc]_vars

----------------------------------------------------------------------------
(* Reading a document as the claims do: its lines, each with the section   *)
(* the most recent header above it names.                                   *)

StripNL(line) == SubSeq(line, 1, SpanEnd(line, {CR, NL}) - 1)

\* The lines of f without their line ends.
TextLines(f) == LET ls == FGetsLines(f) IN [i \in DOMAIN ls |-> StripNL(ls[i])]

\* sectionOf[i]: the section line i lies in (<<>> above the first header); a
\* header line lies in the section it opens.
RECURSIVE SectionsFrom(_, _)
SectionsFrom(lines, current_section) ==
    IF lines = <<>> THEN <<>>
    ELSE LET line == Head(lines)
             cs == IF IsHeader(line) THEN ScanSection(line, current_section)
                   ELSE current_section
         IN  <<cs>> \o SectionsFrom(Tail(lines), cs)

SectionOfLine(f) == SectionsFrom(TextLines(f), <<>>)

\* Line i of f is a key-value line for key in section.
IsKeyLine(f, i, section, key) ==
    LET line == TextLines(f)[i]
    IN  /\ ~IsHeader(line)
        /\ HasEq(line)
        /\ FileKey(line) = key
        /\ SectionOfLine(f)[i] = section

KeyLines(f, section, key) ==
    LET lines == TextLines(f)
        sectionOf == SectionsFrom(lines, <<>>)
    IN  {i \in DOMAIN lines :
            /\ ~IsHeader(lines[i]) /\ HasEq(lines[i])
            /\ FileKey(lines[i]) = key
            /\ sectionOf[i] = section}

\* The lines of f no entry targets, in order.
RECURSIVE SelectIdx(_, _, _)
SelectIdx(lines, i, keep) ==
    IF i > Len(lines) THEN <<>>
    ELSE (IF i \in keep THEN <<lines[i]>> ELSE <<>>) \o SelectIdx(lines, i + 1, keep)

Untargeted(f, entries) ==
    SelectIdx(TextLines(f), 1,
              {i \in DOMAIN TextLines(f) :
                  \A n \in DOMAIN entries :
                      ~IsKeyLine(f, i, entries[n].section, entries[n].key)})

\* s is a subsequence of t (same order, not necessarily adjacent).
RECURSIVE IsSubseq(_, _)
IsSubseq(s, t) ==
    IF s = <<>> THEN TRUE
    ELSE IF t = <<>> THEN FALSE
         ELSE IF Head(s) = Head(t) THEN IsSubseq(Tail(s), Tail(t))
              ELSE IsSubseq(s, Tail(t))

EndsWithNL(f) == f = <<>> \/ f[Len(f)] = NL

----------------------------------------------------------------------------
(* Claims C7 .. C10, checked under SpecDoc *)

\* C7 (round trip): after update(S,K,V) / updateBatch([(S,K,V)]) has succeeded
\* on any document, read(S,K) on the resulting file returns V.
C7_RoundTrip ==
    (napplied >= 1 /\ Len(dreq) = 1) =>
        read_config_value(doc, dreq[1].section, dreq[1].key, Default)
            = [ret |-> 1, value |-> dreq[1].value]

\* C8 (idempotence): writing the same single entry a second time leaves the
\* file byte-identical to the file after the first write.
C8_Idempotent ==
    (napplied = 2 /\ Len(dreq) = 1) => doc = prev

\* C9 (preservation): every line of the document that no entry of the batch
\* targets is a line of the output, unmodified and on its own, and these lines
\* keep their relative order, the last line of the document included.
C9_Preservation ==
    napplied = 1 => IsSubseq(Untargeted(prev, dreq), TextLines(doc))

\* C10 (no duplication): when key K exists in section S of the document, the
\* output of an update of (S,K) does not hold two key-value lines for K in
\* section S; stated for documents that hold exactly one such line.
C10_NoDuplicate ==
    (napplied = 1 /\ Len(dreq) = 1
        /\ Cardinality(KeyLines(prev, dreq[1].section, dreq[1].key)) = 1)
    => Cardinality(KeyLines(doc, dreq[1].section, dreq[1].key)) <= 1

----------------------------------------------------------------------------
(* Claims C11 .. C18, checked under SpecDoc *)

\* The sections the header lines of f name.
HeaderSections(f) ==
    {SectionOfLine(f)[i] : i \in {j \in DOMAIN TextLines(f) : IsHeader(TextLines(f)[j])}}

\* The key-value lines of entries, in order.
RECURSIVE KeyValueLines(_)
KeyValueLines(entries) ==
    IF entries = <<>> THEN <<>>
    ELSE KeyValueLine(Head(entries).key, Head(entries).value)
         \o KeyValueLines(Tail(entries))

\* What section synthesis is to append for entries, none of whose sections the
\* document has: per distinct section, in order of first mention, a blank
\* line, the header, and the lines of the entries of that section in order.
RECURSIVE Synthesized(_)
Synthesized(entries) ==
    IF entries = <<>> THEN <<>>
    ELSE LET s == Head(entries).section
         IN  <<NL, "[">> \o s \o <<"]", NL>>
             \o KeyValueLines(SelectSeq(entries, LAMBDA e : e.section = s))
             \o Synthesized(SelectSeq(entries, LAMBDA e : e.section # s))

\* The entries whose section is (present) or is not (~present) a header of f.
EntriesBySection(f, entries, present) ==
    SelectSeq(entries, LAMBDA e : (e.section \in HeaderSections(f)) = present)

\* What the writer that made doc from prev gives for entries.
Written(f, entries) ==
    IF dfn = "value"
    THEN write_config_value(f, entries[1].section, entries[1].key, entries[1].value)
    ELSE write_config_batch(f, entries)

\* The output for the entries whose section the document has; the document
\* itself when there is none.
PriorContent(f, entries) ==
    IF EntriesBySection(f, entries, TRUE) = <<>> THEN f
    ELSE Written(f, EntriesBySection(f, entries, TRUE))

\* C11 (section synthesis): the entries whose section is no header of the
\* document are appended after all prior content, one new header per distinct
\* missing section, each preceded by one blank line and followed by the
\* key = value lines of its entries in input order.
C11_SectionSynthesis ==
    (napplied = 1 /\ EntriesBySection(prev, dreq, FALSE) # <<>>)
    => /\ doc = PriorContent(prev, dreq) \o Synthesized(EntriesBySection(prev, dreq, FALSE))
       /\ EndsWithNL(PriorContent(prev, dreq))

\* The same on documents whose last line ends with a newline.
C11_SectionSynthesis_NL ==
    (napplied = 1 /\ EntriesBySection(prev, dreq, FALSE) # <<>> /\ EndsWithNL(prev))
    => /\ doc = PriorContent(prev, dreq) \o Synthesized(EntriesBySection(prev, dreq, FALSE))
       /\ EndsWithNL(PriorContent(prev, dreq))

\* The text of the canonical line of entry e, without its newline.
CanonicalText(e) == StripNL(KeyValueLine(e.key, e.value))

\* Entry e asks for an insertion at the end of its section: the document has
\* the section and no key-value line for the key in it.
NeedsInsertion(f, e) ==
    e.section \in HeaderSections(f) /\ KeyLines(f, e.section, e.key) = {}

\* The index of the header line that closes the first block of section in f:
\* the first header below the first header that names section; Len + 1 when
\* the block runs to the end of the file.
ClosingHeader(f, section) ==
    LET lines == TextLines(f)
        opens == CHOOSE i \in DOMAIN lines :
                    /\ IsHeader(lines[i]) /\ SectionOfLine(f)[i] = section
                    /\ \A j \in 1..(i - 1) :
                          ~(IsHeader(lines[j]) /\ SectionOfLine(f)[j] = section)
        below == {j \in DOMAIN lines : j > opens /\ IsHeader(lines[j])}
    IN  IF below = {} THEN Len(lines) + 1
        ELSE CHOOSE j \in below : \A k \in below : j <= k

\* lines with the line text put in front of line i.
InsertLine(lines, i, text) ==
    SubSeq(lines, 1, i - 1) \o <<text>> \o SubSeq(lines, i, Len(lines))

\* The lines of f that are the canonical line of e and lie in e's section.
CanonicalLines(f, e) ==
    {i \in DOMAIN TextLines(f) :
        TextLines(f)[i] = CanonicalText(e) /\ SectionOfLine(f)[i] = e.section}

\* Line j of out is the blank line in front of a synthesized header: a header
\* of a section that f does not have.
SynthesisOpens(f, out, j) ==
    /\ TextLines(out)[j] = <<>>
    /\ j + 1 <= Len(TextLines(out))
    /\ IsHeader(TextLines(out)[j + 1])
    /\ SectionOfLine(out)[j + 1] \notin HeaderSections(f)

\* C12 (end-of-section insertion): when the section of an entry occurs in the
\* document and its key does not occur in that section, the line key = value
\* is inserted exactly once, immediately before the header that closes the
\* section (at the end of the file when the section is the last one, in front
\* of the synthesized sections; behind other lines inserted there), and no
\* original line changes: for a single entry the lines of the output are those of the document with that one
\* line inserted.
C12_EndOfSectionInsertion ==
    napplied = 1 =>
        /\ \A n \in DOMAIN dreq :
              NeedsInsertion(prev, dreq[n]) =>
                /\ Cardinality(CanonicalLines(doc, dreq[n])) = 1
                /\ \A i \in CanonicalLines(doc, dreq[n]) :
                      \A j \in (i + 1)..Len(TextLines(doc)) :
                          (\A m \in (i + 1)..j : ~IsHeader(TextLines(doc)[m]))
                          => \/ \E k \in DOMAIN dreq :
                                   /\ dreq[k].section = dreq[n].section
                                   /\ TextLines(doc)[j] = CanonicalText(dreq[k])
                             \/ SynthesisOpens(prev, doc, j)
        /\ (Len(dreq) = 1 /\ NeedsInsertion(prev, dreq[1]))
              => TextLines(doc) = InsertLine(TextLines(prev),
                                             ClosingHeader(prev, dreq[1].section),
                                             CanonicalText(dreq[1]))

\* The same on documents whose last line ends with a newline.
C12_EndOfSectionInsertion_NL ==
    EndsWithNL(prev) => C12_EndOfSectionInsertion

\* The entries that target line i of f: it is a key-value line for their key
\* in their section.
Targeting(f, i, entries) ==
    {n \in DOMAIN entries : IsKeyLine(f, i, entries[n].section, entries[n].key)}

\* The lines of f with each targeted line replaced by the canonical line of
\* the entry that targets it (the first, when several do).
WithReplacements(f, entries) ==
    [i \in DOMAIN TextLines(f) |->
        IF Targeting(f, i, entries) = {}
        THEN TextLines(f)[i]
        ELSE CanonicalText(entries[CHOOSE n \in Targeting(f, i, entries) :
                                      \A m \in Targeting(f, i, entries) : n <= m])]

\* out holds the lines of f in their order, each targeted line replaced by its
\* canonical line, every other line as it was (out may hold inserted lines
\* between them).
ReplacedInPlace(f, out, entries) ==
    IsSubseq(WithReplacements(f, entries), TextLines(out))

\* No two entries target the same (section, key).
DistinctTargets(entries) ==
    \A m, n \in DOMAIN entries :
        (entries[m].section = entries[n].section /\ entries[m].key = entries[n].key)
        => m = n

\* C13 (single-pass replacement): when the entries target distinct keys and
\* each has a key-value line for its key in its section, each key-value line
\* an entry targets is replaced in place by the canonical line key = value,
\* whatever the blanks around its '=', and every other line is copied as it is.
C13_ReplaceInPlace ==
    (napplied = 1 /\ DistinctTargets(dreq)
        /\ \A n \in DOMAIN dreq : KeyLines(prev, dreq[n].section, dreq[n].key) # {})
    => ReplacedInPlace(prev, doc, dreq)

\* The same for write_config_batch alone.
C13_ReplaceInPlace_Batch ==
    dfn = "batch" => C13_ReplaceInPlace

\* The same for write_config_value when the key has one line in the section,
\* in the first block of the section.
C13_ReplaceInPlace_Single ==
    (dfn = "value"
        /\ Cardinality(KeyLines(prev, dreq[1].section, dreq[1].key)) = 1
        /\ \A i \in KeyLines(prev, dreq[1].section, dreq[1].key) :
              i < ClosingHeader(prev, dreq[1].section))
    => C13_ReplaceInPlace

\* Entries m and n target the same (section, key).
SameTarget(entries, m, n) ==
    entries[m].section = entries[n].section /\ entries[m].key = entries[n].key

\* C14 (ordering tie-break): when two or more entries of a batch target the
\* same (section, key), read(section, key) on the output returns the value of
\* the last of them, whether the key was in the document or had to be inserted.
C14_LastEntryWins ==
    (napplied = 1 /\ dfn = "batch")
    => \A n \in DOMAIN dreq :
          ( /\ \E m \in 1..(n - 1) : SameTarget(dreq, m, n)
            /\ \A k \in (n + 1)..Len(dreq) : ~SameTarget(dreq, k, n) )
          => read_config_value(doc, dreq[n].section, dreq[n].key, Default)
                = [ret |-> 1, value |-> dreq[n].value]

\* What the code does instead, on documents that end with a newline: the
\* first of the entries wins.
C14_FirstEntryWins_NL ==
    (napplied = 1 /\ dfn = "batch" /\ EndsWithNL(prev))
    => \A n \in DOMAIN dreq :
          (\A m \in 1..(n - 1) : ~SameTarget(dreq, m, n))
          => read_config_value(doc, dreq[n].section, dreq[n].key, Default)
                = [ret |-> 1, value |-> dreq[n].value]

\* C15 (update is updateBatch of one entry): for every document and every
\* entry, write_config_value and write_config_batch with that single entry
\* write the same bytes.
C15_ValueIsBatchOfOne ==
    (napplied = 1 /\ Len(dreq) = 1)
    => doc = IF dfn = "value"
             THEN write_config_batch(prev, dreq)
             ELSE write_config_value(prev, dreq[1].section, dreq[1].key, dreq[1].value)

\* The same on documents in which the section has at most one header and the
\* key at most one line in it.
C15_ValueIsBatchOfOne_Plain ==
    (Cardinality(KeyLines(prev, dreq[1].section, dreq[1].key)) <= 1
        /\ Cardinality({i \in DOMAIN TextLines(prev) :
                           IsHeader(TextLines(prev)[i])
                           /\ SectionOfLine(prev)[i] = dreq[1].section}) <= 1)
    => C15_ValueIsBatchOfOne

\* Line i of f lies below a header line.
BelowHeader(f, i) == \E j \in 1..(i - 1) : IsHeader(TextLines(f)[j])

\* The key-value lines of f no entry may touch: those above the first header
\* and those in a section that no entry names.
OutOfScope(f, entries) ==
    LET lines == TextLines(f)
        sectionOf == SectionsFrom(lines, <<>>)
    IN  {i \in DOMAIN lines :
            /\ ~IsHeader(lines[i]) /\ HasEq(lines[i])
            /\ \/ \A j \in 1..(i - 1) : ~IsHeader(lines[j])
               \/ \A n \in DOMAIN entries : entries[n].section # sectionOf[i]}

\* The lines of f, each with whether it lies below a header and in which section.
ScopedLines(f) ==
    LET lines == TextLines(f)
        sectionOf == SectionsFrom(lines, <<>>)
    IN  [i \in DOMAIN lines |->
            <<\E j \in 1..(i - 1) : IsHeader(lines[j]), sectionOf[i], lines[i]>>]

\* C16 (section scoping): read(S,K) returns only the value of a key-value line
\* for K that lies below a header in section S; an update leaves every
\* key-value line above the first header or in a section none of its entries
\* names as it is, in its place and in its section.
C16_SectionScoping ==
    /\ \A section \in Sections \cup {<<>>}, key \in Keys :
          LET r == read_config_value(doc, section, key, Default)
          IN  r.ret = 1 =>
                \E i \in KeyLines(doc, section, key) :
                    BelowHeader(doc, i) /\ r.value = FileValue(TextLines(doc)[i])
    /\ napplied = 1 =>
          IsSubseq(SelectIdx(ScopedLines(prev), 1, OutOfScope(prev, dreq)),
                   ScopedLines(doc))

\* An update has left alone a line for its key in another section and one
\* above the first header, and a read of the key in the section does not
\* return their value.
C16_Witness ==
    /\ napplied = 1 /\ Len(dreq) = 1 /\ doc # prev
    /\ \E i, j \in OutOfScope(prev, dreq) :
          /\ ~BelowHeader(prev, i) /\ BelowHeader(prev, j)
          /\ FileKey(TextLines(prev)[i]) = dreq[1].key
          /\ FileKey(TextLines(prev)[j]) = dreq[1].key
    /\ read_config_value(doc, dreq[1].section, dreq[1].key, Default).value = dreq[1].value

\* What ReadFile must not be: a read that clears the caller's buffer before
\* it looks for the key.
ReadFile_Clearing(f, section, key, value) ==
    IF f = NoFile THEN [ret |-> 0, value |-> <<>>]
    ELSE read_config_value(f, section, key, <<>>)

\* read_config_value on a configuration file that may not exist:
\* if (!fp) return 0, the caller's buffer untouched.
ReadFile(f, section, key, value) ==
    IF f = NoFile THEN [ret |-> 0, value |-> value]
    ELSE read_config_value(f, section, key, value)

\* The text behind the first '=' of line, from its first to its last
\* character that is not blank.
ValueText(line) ==
    LET v == SubSeq(line, IndexOf(line, "=") + 1, Len(line))
        inked == {i \in DOMAIN v : v[i] \notin {SP, TAB, CR, NL}}
    IN  IF inked = {} THEN <<>>
        ELSE SubSeq(v, CHOOSE i \in inked : \A j \in inked : i <= j,
                       CHOOSE i \in inked : \A j \in inked : i >= j)

\* C17 (read): read(S,K) returns the trimmed value of the first key-value line
\* for K in section S, in document order; it returns NotFound exactly when
\* there is no such line or the file cannot be opened.
C17_ReadFirstMatch ==
    \A section \in Sections, key \in Keys :
        /\ LET hits == KeyLines(doc, section, key)
               r == ReadFile(doc, section, key, Default)
           IN  IF hits = {} THEN r.ret = 0
               ELSE /\ r.ret = 1
                    /\ r.value = ValueText(TextLines(doc)[CHOOSE i \in hits :
                                                            \A j \in hits : i <= j])
        /\ ReadFile(NoFile, section, key, Default).ret = 0

\* A document with two lines of different values for a key in a section, of
\* which read returns the first, and with a key that a section lacks.
C17_Witness ==
    /\ \E section \in Sections, key \in Keys :
          \E i, j \in KeyLines(doc, section, key) :
              /\ i < j
              /\ ValueText(TextLines(doc)[i]) # ValueText(TextLines(doc)[j])
              /\ ReadFile(doc, section, key, Default).value = ValueText(TextLines(doc)[i])
    /\ \E section \in Sections, key \in Keys :
          KeyLines(doc, section, key) = {} /\ ReadFile(doc, section, key, Default).ret = 0

----------------------------------------------------------------------------
(* SpecRead: callers of read_config_value on a configuration file that a    *)
(* process may hold the flock of.                                          *)

InitRead ==
    /\ ProcQuiet /\ BootQuiet /\ VideoQuiet /\ JttQuiet
    /\ doc \in Documents \cup {NoFile}
    /\ prev = doc
    /\ dreq = <<>>
    /\ dfn = "none"
    /\ napplied = 0
    /\ ReadQuiet
    /\ SafeQuiet
    /\ ReqQuiet

\* One call of read_config_value(section, key, value, value_size) with the
\* default in value: fopen(CONFIG_FILE, "r"), the loop over fgets, fclose.
DocRead ==
    /\ nreads < MaxReads
    /\ \E section \in Sections, key \in Keys :
          rd' = [section |-> section, key |-> key,
                 ret |-> ReadFile(doc, section, key, Default).ret,
                 value |-> ReadFile(doc, section, key, Default).value]
    /\ nreads' = nreads + 1
    /\ UNCHANGED <<procVars, docVars, safeVars, reqVars, bootVars, videoVars, jttVars>>

NextRead == DocRead \/ ExtLock \/ ExtUnlock

SpecRead == InitRead /\ [][NextRead]_vars

\* C18 (read has no side effects): a call of read_config_value does not change
\* the configuration file and takes or waits for no lock, and when it returns
\* 0 (NotFound) the caller's buffer still holds the caller's default.
C18_ReadNoSideEffects ==
    [][nreads' # nreads =>
          /\ doc' = doc /\ file' = file /\ ino' = ino
          /\ held' = held
          /\ rd'.ret \in {0, 1}
          /\ rd'.ret = 0 => rd'.value = Default
      ]_vars

\* A read returned 0 with the default in the buffer while another process
\* held the lock of the file, which exists and is not empty.
C18_Witness ==
    /\ nreads >= 1 /\ rd.ret = 0 /\ rd.value = Default
    /\ held[Ext] # 0
    /\ doc # NoFile /\ doc # <<>>

----------------------------------------------------------------------------
(* SpecSafe: the main thread of web_config. It runs check_and_migrate_config *)
(* once, then serves requests; handle_config_update and the migration stop  *)
(* rkipc, write the configuration file and launch rkipc again. rkipc is a   *)
(* process of its own: once signalled it exits when it chooses, or never.   *)

MAX_RETRIES == 50   \* while (retries < 50)

\* The five write_config_value calls of check_and_migrate_config: storage.0
\* enable, folder_name, file_duration; video.jpeg enable_cycle_snapshot,
\* snapshot_interval_ms.
MigrationWrites ==
    <<
       Entry(<<"s", "t", "o", "r", "a", "g", "e", ".", "0">>,
             <<"e", "n", "a", "b", "l", "e">>,
             <<"1">>),
       Entry(<<"s", "t", "o", "r", "a", "g", "e", ".", "0">>,
             <<"f", "o", "l", "d", "e", "r", "_", "n", "a", "m", "e">>,
             <<"r", "e", "c", "o", "r", "d", "i", "n", "g", "s">>),
       Entry(<<"s", "t", "o", "r", "a", "g", "e", ".", "0">>,
             <<"f", "i", "l", "e", "_", "d", "u", "r", "a", "t", "i", "o", "n">>,
             <<"1", "2", "0">>),
       Entry(<<"v", "i", "d", "e", "o", ".", "j", "p", "e", "g">>,
             <<"e", "n", "a", "b", "l", "e", "_", "c", "y", "c", "l", "e", "_", "s", "n", "a", "p", "s", "h", "o", "t">>,
             <<"1">>),
       Entry(<<"v", "i", "d", "e", "o", ".", "j", "p", "e", "g">>,
             <<"s", "n", "a", "p", "s", "h", "o", "t", "_", "i", "n", "t", "e", "r", "v", "a", "l", "_", "m", "s">>,
             <<"3", "0", "0", "0", "0">>)
    >>

\* What the body of a request parses into updates[]: nothing, or a batch.
SafeBatches == { b \in Batches : Len(b) <= MaxUpdates } \cup {<<>>}

InitSafe ==
    /\ ProcQuiet /\ BootQuiet /\ VideoQuiet /\ JttQuiet
    /\ ReadQuiet
    /\ ReqQuiet
    /\ doc = StartDoc
    /\ prev = doc
    /\ dreq = <<>>
    /\ dfn = "none"
    /\ napplied = 0
    /\ sw = "boot"
    /\ caller = "none"
    /\ updates = <<>>
    /\ retries = 0
    /\ service \in {"running", "absent"}
    /\ signals = <<>>
    /\ npolls = 0
    /\ seen = "none"
    /\ nwritten = 0
    /\ nlaunched = 0
    /\ marker \in BOOLEAN
    /\ success = -1
    /\ reported = -1
    /\ nreq = 0
    /\ wfaults = 0

\* A caller enters the procedure: nothing signalled, polled, written or
\* launched by it yet.
Enter(who, entries) ==
    /\ caller' = who
    /\ updates' = entries
    /\ signals' = <<>>
    /\ npolls' = 0
    /\ seen' = "none"
    /\ nwritten' = 0
    /\ nlaunched' = 0

\* main calls check_and_migrate_config: return when the marker exists, else
\* go on to stop_rkipc().
CheckAndMigrate ==
    /\ sw = "boot"
    /\ IF marker
       THEN /\ sw' = "serve"
            /\ UNCHANGED <<caller, updates, signals, npolls, seen, nwritten, nlaunched>>
       ELSE /\ Enter("migrate", MigrationWrites)
            /\ sw' = "stop_rkipc"
    /\ UNCHANGED <<retries, service, marker, success, reported, nreq, wfaults, procVars, docVars, readVars, reqVars, bootVars, videoVars, jttVars>>

\* The handler writes ahead of stop_rkipc().
HandleConfigUpdate_WriteFirst ==
    /\ sw = "serve"
    /\ nreq < MaxRequests
    /\ nreq' = nreq + 1
    /\ \E u \in SafeBatches :
          IF Len(u) > 0
          THEN /\ Enter("update", u)
               /\ sw' = "write"
               /\ success' = -1
               /\ reported' = -1
          ELSE /\ Enter("none", <<>>)
               /\ success' = -1
               /\ reported' = 0
               /\ sw' = sw
    /\ UNCHANGED <<retries, service, marker, wfaults, procVars, docVars, readVars, reqVars, bootVars, videoVars, jttVars>>

\* handle_config_update up to its call of stop_rkipc(): with update_count = 0
\* it answers "No valid updates found" and touches nothing.
HandleConfigUpdate ==
    /\ sw = "serve"
    /\ nreq < MaxRequests
    /\ nreq' = nreq + 1
    /\ \E u \in SafeBatches :
          IF Len(u) > 0
          THEN /\ Enter("update", u)
               /\ sw' = "stop_rkipc"
               /\ success' = -1
               /\ reported' = -1
          ELSE /\ Enter("none", <<>>)
               /\ success' = -1
               /\ reported' = 0
               /\ sw' = sw
    /\ UNCHANGED <<retries, service, marker, wfaults, procVars, docVars, readVars, reqVars, bootVars, videoVars, jttVars>>

\* stop_rkipc: system("killall -q rkipc"); int retries = 0.
StopSignal ==
    /\ sw = "stop_rkipc"
    /\ signals' = Append(signals, "TERM")
    /\ retries' = 0
    /\ sw' = "poll"
    /\ UNCHANGED <<caller, updates, service, npolls, seen, nwritten, nlaunched, marker,
                   success, reported, nreq, wfaults, procVars, docVars, readVars, reqVars, bootVars, videoVars, jttVars>>

\* The loop polls without counting, so that it ends only when rkipc is gone.
StopPoll_Unbounded ==
    /\ sw = "poll"
    /\ retries < MAX_RETRIES
    /\ npolls' = npolls
    /\ seen' = IF service = "absent" THEN "absent" ELSE "present"
    /\ IF service = "absent"
       THEN sw' = "write" /\ retries' = retries
       ELSE sw' = "poll" /\ retries' = retries
    /\ UNCHANGED <<caller, updates, service, signals, nwritten, nlaunched, marker,
                   success, reported, nreq, wfaults, procVars, docVars, readVars, reqVars, bootVars, videoVars, jttVars>>

\* One turn of while (retries < 50): system("pgrep rkipc") != 0 returns from
\* stop_rkipc; else usleep(100000); retries++.
StopPoll ==
    /\ sw = "poll"
    /\ retries < MAX_RETRIES
    /\ npolls' = npolls + 1
    /\ seen' = IF service = "absent" THEN "absent" ELSE "present"
    /\ IF service = "absent"
       THEN sw' = "write" /\ retries' = retries
       ELSE sw' = "poll" /\ retries' = retries + 1
    /\ UNCHANGED <<caller, updates, service, signals, nwritten, nlaunched, marker,
                   success, reported, nreq, wfaults, procVars, docVars, readVars, reqVars, bootVars, videoVars, jttVars>>

\* The loop is over: system("killall -9 rkipc"); usleep(100000); return.
StopForce ==
    /\ sw = "poll"
    /\ ~(retries < MAX_RETRIES)
    /\ signals' = Append(signals, "KILL")
    /\ sw' = "write"
    /\ UNCHANGED <<caller, updates, retries, service, npolls, seen, nwritten, nlaunched,
                   marker, success, reported, nreq, wfaults, procVars, docVars, readVars, reqVars, bootVars, videoVars, jttVars>>

\* A call of write_config_* on the configuration file: it replaces the file
\* and returns 1, or fails, leaves the file and returns 0.
WriteCall(fn, entries, ret) ==
    \/ /\ ret = 1
       /\ doc' = Transform(doc, [fn |-> fn, entries |-> entries])
       /\ wfaults' = wfaults
    \/ /\ ret = 0
       /\ wfaults < MaxFaults
       /\ doc' = doc
       /\ wfaults' = wfaults + 1

\* handle_config_update: int success = write_config_batch(updates, update_count).
WriteBatch ==
    /\ sw = "write"
    /\ caller = "update"
    /\ \E ret \in {0, 1} :
          /\ WriteCall("batch", updates, ret)
          /\ success' = ret
    /\ nwritten' = nwritten + 1
    /\ sw' = "start"
    /\ UNCHANGED <<caller, updates, retries, service, signals, npolls, seen, nlaunched,
                   marker, reported, nreq, procVars, prev, dreq, dfn, napplied, readVars, reqVars, bootVars, videoVars, jttVars>>

\* check_and_migrate_config: the next of its write_config_value calls, the
\* result ignored; sync() after the last.
MigrateWrite ==
    /\ sw = "write"
    /\ caller = "migrate"
    /\ \E ret \in {0, 1} : WriteCall("value", <<updates[nwritten + 1]>>, ret)
    /\ nwritten' = nwritten + 1
    /\ sw' = IF nwritten + 1 < Len(updates) THEN "write" ELSE "start"
    /\ nmigrated' = IF nwritten = 0 THEN nmigrated + 1 ELSE nmigrated
    /\ UNCHANGED <<caller, updates, retries, service, signals, npolls, seen, nlaunched,
                   marker, success, reported, nreq, procVars, prev, dreq, dfn, napplied,
                   readVars, reqVars, nboots, videoVars, jttVars>>

\* system("... /oem/usr/bin/rkipc -a /oem/usr/share/iqfiles >/dev/null 2>&1 &"):
\* the shell returns at once; rkipc comes up or does not.
Launch ==
    /\ sw = "start"
    /\ nlaunched' = nlaunched + 1
    /\ service' \in {"running", service}
    /\ sw' = "finish"
    /\ UNCHANGED <<caller, updates, retries, signals, npolls, seen, nwritten, marker,
                   success, reported, nreq, wfaults, procVars, docVars, readVars, reqVars, bootVars, videoVars, jttVars>>

\* The response tells failure when rkipc did not come up.
Respond_LaunchAware ==
    /\ sw = "finish"
    /\ caller = "update"
    /\ reported' = IF success # 0 /\ service = "running" THEN 1 ELSE 0
    /\ sw' = "serve"
    /\ UNCHANGED <<caller, updates, retries, service, signals, npolls, seen, nwritten,
                   nlaunched, marker, success, nreq, wfaults, procVars, docVars, readVars, reqVars, bootVars, videoVars, jttVars>>

\* handle_config_update: send_json of the response, back to the server loop.
Respond ==
    /\ sw = "finish"
    /\ caller = "update"
    /\ reported' = IF success # 0 THEN 1 ELSE 0
    /\ sw' = "serve"
    /\ UNCHANGED <<caller, updates, retries, service, signals, npolls, seen, nwritten,
                   nlaunched, marker, success, nreq, wfaults, procVars, docVars, readVars, reqVars, bootVars, videoVars, jttVars>>

\* check_and_migrate_config: fopen of the marker file "w", which may fail;
\* main goes on to the server loop.
CreateMarker ==
    /\ sw = "finish"
    /\ caller = "migrate"
    /\ marker' \in BOOLEAN
    /\ sw' = "serve"
    /\ UNCHANGED <<caller, updates, retries, service, signals, npolls, seen, nwritten,
                   nlaunched, success, reported, nreq, wfaults, procVars, docVars, readVars, reqVars, bootVars, videoVars, jttVars>>

\* rkipc, signalled by the caller and not launched again yet, exits.
ServiceExits ==
    /\ service = "running"
    /\ signals # <<>>
    /\ nlaunched = 0
    /\ service' = "absent"
    /\ UNCHANGED <<sw, caller, updates, retries, signals, npolls, seen, nwritten, nlaunched,
                   marker, success, reported, nreq, wfaults, procVars, docVars, readVars, reqVars, bootVars, videoVars, jttVars>>

\* The steps of the main thread once a caller is in the procedure.
SafeStep ==
    \/ StopSignal \/ StopPoll \/ StopForce
    \/ WriteBatch \/ MigrateWrite
    \/ Launch \/ Respond \/ CreateMarker

NextSafe == CheckAndMigrate \/ HandleConfigUpdate \/ SafeStep \/ ServiceExits

SpecSafe == InitSafe /\ [][NextSafe]_vars

\* The main thread is the only one in the procedure and every system(),
\* usleep() and write_config_* call of it returns: it takes its next step.
SpecSafeFair == SpecSafe /\ WF_vars(CheckAndMigrate) /\ WF_vars(SafeStep)

----------------------------------------------------------------------------
(* Claims C19, C20, checked under SpecSafe and SpecSafeFair *)

\* The calls of write_config_* the caller makes in the procedure.
WriteCalls == IF caller = "update" THEN 1 ELSE Len(updates)

\* stop_rkipc has returned to the caller: the graceful signal was sent and
\* then a poll saw rkipc absent, or the forced kill was sent.
StopReturned ==
    /\ signals # <<>>
    /\ signals[1] = "TERM"
    /\ seen = "absent" \/ signals = <<"TERM", "KILL">>

\* C19 (Safe-Write ordering): in handle_config_update with at least one valid
\* update and in check_and_migrate_config the steps come in the order
\* ServiceStopping, Locked-Write, ServiceStarting: a write begins only after
\* stop_rkipc has returned (a poll saw the service absent, or the forced kill
\* was sent) and before the launch; the service is launched once, only after
\* the last write has returned; no signal is sent once a write has begun.
C19_SafeWriteOrdering ==
    [][/\ nwritten' > nwritten => StopReturned /\ nlaunched = 0 /\ sw \notin {"stop_rkipc", "poll"}
       /\ nlaunched' > nlaunched => nlaunched = 0 /\ nwritten = WriteCalls /\ StopReturned
       /\ Len(signals') > Len(signals) => nwritten = 0 /\ nlaunched = 0
       /\ doc' # doc => nwritten' > nwritten
      ]_vars

\* The migration has made its five writes and launched rkipc after the forced
\* kill, with rkipc never gone; the file holds what the writes put there.
C19_Witness ==
    /\ caller = "migrate" /\ sw = "finish"
    /\ signals = <<"TERM", "KILL">> /\ seen = "present"
    /\ nwritten = 5 /\ nlaunched = 1
    /\ doc # StartDoc

\* C20 (ServiceStopping is bounded): stop_rkipc sends the graceful signal
\* before anything else, then polls at most 50 times; a poll that sees the
\* service absent returns to the caller at once, with no forced kill; the
\* forced kill is sent only after 50 polls that all saw the service present;
\* and whatever the service does, stop_rkipc ends and the caller goes on to
\* its write.
C20_StopBounded ==
    /\ [](npolls <= MAX_RETRIES)
    /\ [][/\ npolls' > npolls =>
                /\ signals = <<"TERM">>
                /\ signals' = signals
                /\ seen' = "absent" => sw' = "write"
                /\ seen' = "present" => sw' = "poll" /\ retries' = npolls'
          /\ Len(signals') > Len(signals) =>
                \/ signals = <<>> /\ signals' = <<"TERM">> /\ npolls = 0
                \/ /\ signals = <<"TERM">> /\ signals' = <<"TERM", "KILL">>
                   /\ npolls = MAX_RETRIES /\ retries = MAX_RETRIES /\ seen = "present"
                   /\ sw' = "write"
         ]_vars
    /\ (sw = "stop_rkipc") ~> (nwritten > 0)

\* rkipc outlived the graceful signal, 50 polls and the forced kill, and the
\* caller has made its write all the same.
C20_Witness ==
    /\ service = "running"
    /\ signals = <<"TERM", "KILL">>
    /\ npolls = MAX_RETRIES
    /\ nwritten > 0 /\ nlaunched = 0

\* C21 (the reported result is the write's): the response of
\* handle_config_update tells success exactly when write_config_batch
\* returned 1; rkipc is launched after the write whether it returned 1 or 0,
\* and the launch, come up or not, changes neither the write's result nor the
\* response.
C21_ReportIsWriteResult ==
    /\ [](caller = "update" /\ reported # -1 =>
              /\ success \in {0, 1}
              /\ reported = success
              /\ nwritten = 1 /\ nlaunched = 1)
    /\ [][nlaunched' > nlaunched =>
              /\ success' = success /\ reported' = reported
              /\ caller = "update" => success \in {0, 1}
         ]_vars

\* The write returned 1, rkipc did not come up, the response tells success.
C21_Witness ==
    /\ caller = "update" /\ sw = "serve"
    /\ success = 1 /\ reported = 1
    /\ nlaunched = 1 /\ service = "absent"
    /\ doc # StartDoc

\* The write returned 0, rkipc was launched all the same, the response tells
\* failure.
C21_WitnessFailure ==
    /\ caller = "update" /\ sw = "serve"
    /\ success = 0 /\ reported = 0
    /\ nlaunched = 1 /\ service = "running"

----------------------------------------------------------------------------
(* Claims C22, C23, checked under Spec *)

\* C22 (atomic replacement): the path CONFIG_FILE never names a partially
\* written document: whenever what it names changes, it changes in one step,
\* by the rename of a caller, from the complete document before the update to
\* the complete document the caller's update gives for what it read.
C22_AtomicReplacement ==
    [][file' # file =>
          \E p \in Procs :
              /\ pc[p] = "rename" /\ pc'[p] = "unlock"
              /\ file' = Transform(rbuf[p], req[p])
      ]_vars

\* The same for the callers whose streams had no error.
C22_AtomicReplacement_NoFault ==
    [][file' # file =>
          \E p \in Procs :
              /\ pc[p] = "rename" /\ pc'[p] = "unlock"
              /\ file' = tmp[p]
              /\ ~ferr[p] => file' = Transform(rbuf[p], req[p])
      ]_vars

\* C23 (lock release): when write_config_value or write_config_batch has
\* returned, with 1 or with 0 on any of its failure paths, the caller holds no
\* lock and its lock descriptor is closed; the step that returns is the one
\* that releases.
C23_LockReleased ==
    /\ [](\A p \in Procs : pc[p] = "done" => held[p] = 0 /\ fd[p] = 0 /\ rc[p] \in {0, 1})
    /\ [][\A p \in Procs :
             (pc'[p] = "done" /\ pc[p] # "done") => (held'[p] = 0 /\ fd'[p] = 0)
         ]_vars

\* A call has returned 0 from a failure behind its flock and another has
\* returned 1; no caller holds a lock, and a third can take it.
C23_Witness ==
    \E p, q, r \in Procs :
        /\ pc[p] = "done" /\ rc[p] = 0 /\ err[p] \in {"fopen_r", "fopen_w", "rename"}
        /\ pc[q] = "done" /\ rc[q] = 1
        /\ pc[r] = "fopen_r" /\ held[r] # 0
        /\ held[p] = 0 /\ held[q] = 0

----------------------------------------------------------------------------
(* handle_config_update: the body of a POST /api/config, parsed in place in  *)
(* body_copy with strtok, strchr, atoi and sprintf.                          *)

NUL == "NUL"            \* the character '\0'
MAX_UPDATES == 32       \* ConfigEntry updates[32]
VALUE_MAX == 255        \* strncpy(updates[update_count].value, value, 255)

\* The parameters the handler knows: the section and key each stands for, and
\* the factor its value is multiplied by (0: the value is taken as it is).
ParamTable ==
    <<
       [param |-> <<"s", "t", "o", "r", "a", "g", "e", "_", "e", "n", "a", "b", "l", "e">>,
        section |-> <<"s", "t", "o", "r", "a", "g", "e", ".", "0">>,
        key |-> <<"e", "n", "a", "b", "l", "e">>,
        factor |-> 0],
       [param |-> <<"f", "o", "l", "d", "e", "r", "_", "n", "a", "m", "e">>,
        section |-> <<"s", "t", "o", "r", "a", "g", "e", ".", "0">>,
        key |-> <<"f", "o", "l", "d", "e", "r", "_", "n", "a", "m", "e">>,
        factor |-> 0],
       [param |-> <<"f", "i", "l", "e", "_", "d", "u", "r", "a", "t", "i", "o", "n">>,
        section |-> <<"s", "t", "o", "r", "a", "g", "e", ".", "0">>,
        key |-> <<"f", "i", "l", "e", "_", "d", "u", "r", "a", "t", "i", "o", "n">>,
        factor |-> 60],
       [param |-> <<"r", "t", "s", "p", "_", "e", "n", "a", "b", "l", "e">>,
        section |-> <<"v", "i", "d", "e", "o", ".", "s", "o", "u", "r", "c", "e">>,
        key |-> <<"e", "n", "a", "b", "l", "e", "_", "r", "t", "s", "p">>,
        factor |-> 0],
       [param |-> <<"w", "i", "d", "t", "h">>,
        section |-> <<"v", "i", "d", "e", "o", ".", "0">>,
        key |-> <<"w", "i", "d", "t", "h">>,
        factor |-> 0],
       [param |-> <<"h", "e", "i", "g", "h", "t">>,
        section |-> <<"v", "i", "d", "e", "o", ".", "0">>,
        key |-> <<"h", "e", "i", "g", "h", "t">>,
        factor |-> 0],
       [param |-> <<"m", "a", "x", "_", "r", "a", "t", "e">>,
        section |-> <<"v", "i", "d", "e", "o", ".", "0">>,
        key |-> <<"m", "a", "x", "_", "r", "a", "t", "e">>,
        factor |-> 0],
       [param |-> <<"o", "u", "t", "p", "u", "t", "_", "d", "a", "t", "a", "_", "t", "y", "p", "e">>,
        section |-> <<"v", "i", "d", "e", "o", ".", "0">>,
        key |-> <<"o", "u", "t", "p", "u", "t", "_", "d", "a", "t", "a", "_", "t", "y", "p", "e">>,
        factor |-> 0],
       [param |-> <<"s", "n", "a", "p", "s", "h", "o", "t", "_", "e", "n", "a", "b", "l", "e">>,
        section |-> <<"v", "i", "d", "e", "o", ".", "j", "p", "e", "g">>,
        key |-> <<"e", "n", "a", "b", "l", "e", "_", "c", "y", "c", "l", "e", "_", "s", "n", "a", "p", "s", "h", "o", "t">>,
        factor |-> 0],
       [param |-> <<"s", "n", "a", "p", "s", "h", "o", "t", "_", "i", "n", "t", "e", "r", "v", "a", "l">>,
        section |-> <<"v", "i", "d", "e", "o", ".", "j", "p", "e", "g">>,
        key |-> <<"s", "n", "a", "p", "s", "h", "o", "t", "_", "i", "n", "t", "e", "r", "v", "a", "l", "_", "m", "s">>,
        factor |-> 1000]
    >>

NoParam == [param |-> <<>>, section |-> <<>>, key |-> <<>>, factor |-> -1]

\* A handler that takes a parameter it does not know for the first of the table.
Lookup_Lenient(key) ==
    IF \E i \in DOMAIN ParamTable : ParamTable[i].param = key
    THEN ParamTable[CHOOSE i \in DOMAIN ParamTable : ParamTable[i].param = key]
    ELSE ParamTable[1]

\* The chain of strcmp(key, ...): the row of the parameter key names.
Lookup(key) ==
    IF \E i \in DOMAIN ParamTable : ParamTable[i].param = key
    THEN ParamTable[CHOOSE i \in DOMAIN ParamTable : ParamTable[i].param = key]
    ELSE NoParam

Digits == <<"0", "1", "2", "3", "4", "5", "6", "7", "8", "9">>
DigitVal(c) == (CHOOSE i \in DOMAIN Digits : Digits[i] = c) - 1
IsDigit(c) == \E i \in DOMAIN Digits : Digits[i] = c

\* atoi: blanks, a sign, then the digits up to the first character that is none.
RECURSIVE AtoiDigits(_, _)
AtoiDigits(s, acc) ==
    IF s = <<>> \/ ~IsDigit(Head(s)) THEN acc
    ELSE AtoiDigits(Tail(s), acc * 10 + DigitVal(Head(s)))

atoi(s) ==
    LET t == TrimLead(s)
    IN  IF t # <<>> /\ Head(t) = "-" THEN 0 - AtoiDigits(Tail(t), 0)
        ELSE IF t # <<>> /\ Head(t) = "+" THEN AtoiDigits(Tail(t), 0)
        ELSE AtoiDigits(t, 0)

\* sprintf "%d"
RECURSIVE Itoa(_)
Itoa(n) ==
    IF n < 0 THEN <<"-">> \o Itoa(0 - n)
    ELSE IF n < 10 THEN <<Digits[n + 1]>>
    ELSE Itoa(n \div 10) \o <<Digits[(n % 10) + 1]>>

\* The string that starts at buf[i]: the characters up to the next '\0'.
CStr(buf, i) ==
    LET end == CHOOSE j \in i..Len(buf) : buf[j] = NUL /\ \A k \in i..(j - 1) : buf[k] # NUL
    IN  SubSeq(buf, i, end - 1)

\* buf with the characters of s stored from buf[i] on.
WriteAt(buf, i, s) ==
    [j \in DOMAIN buf |-> IF j >= i /\ j < i + Len(s) THEN s[j - i + 1] ELSE buf[j]]

\* body_copy after strncpy(body_copy, body, sizeof(body_copy) - 1): the body,
\* then '\0' up to the end of the array.
BodyCopy(body) == body \o [i \in 1..BodyPad |-> NUL]

\* One turn of while (pair != NULL && update_count < 32), with the strtok
\* that finds pair: st.pos is where strtok goes on from.
ParsePair(st) ==
    LET start == CHOOSE j \in st.pos..Len(st.buf) :
                     st.buf[j] # "&" /\ \A k \in st.pos..(j - 1) : st.buf[k] = "&"
    IN  IF st.buf[start] = NUL THEN [st EXCEPT !.done = TRUE]
        ELSE
        LET end == CHOOSE j \in start..Len(st.buf) :
                       st.buf[j] \in {"&", NUL} /\ \A k \in start..(j - 1) : st.buf[k] \notin {"&", NUL}
            next == IF st.buf[end] = "&" THEN end + 1 ELSE end
            b1 == [st.buf EXCEPT ![end] = NUL]
            eqs == {j \in start..(end - 1) : b1[j] = "="}
        IN  IF eqs = {} THEN [st EXCEPT !.buf = b1, !.pos = next]
            ELSE
            LET eq == CHOOSE j \in eqs : \A k \in eqs : j <= k
                b2 == [b1 EXCEPT ![eq] = NUL]
                hit == Lookup(SubSeq(b2, start, eq - 1))
                b3 == IF hit.factor > 0
                      THEN WriteAt(b2, eq + 1,
                                   Itoa(atoi(CStr(b2, eq + 1)) * hit.factor) \o <<NUL>>)
                      ELSE b2
                value == CStr(b3, eq + 1)
            IN  [buf |-> b3,
                 pos |-> next,
                 updates |-> IF hit = NoParam THEN st.updates
                             ELSE Append(st.updates,
                                         Entry(hit.section, hit.key,
                                               SubSeq(value, 1, Min(Len(value), VALUE_MAX)))),
                 done |-> FALSE]

RECURSIVE ParseLoop(_)
ParseLoop(st) ==
    IF st.done \/ Len(st.updates) >= MAX_UPDATES THEN st
    ELSE Bind(ParsePair(st), LAMBDA s : ParseLoop(s))

\* updates[0 .. update_count - 1] of handle_config_update(sock, body).
ParseBody(body) ==
    ParseLoop([buf |-> BodyCopy(body), pos |-> 1, updates |-> <<>>, done |-> FALSE]).updates

\* The texts of a pair of a body: two that are converted to a longer value, one
\* converted to a value of the same length, two taken as they are, one the
\* handler does not know, one without '='.
PairTexts ==
    {
      <<"f", "i", "l", "e", "_", "d", "u", "r", "a", "t", "i", "o", "n", "=", "5">>,
      <<"f", "i", "l", "e", "_", "d", "u", "r", "a", "t", "i", "o", "n", "=", "0">>,
      <<"s", "n", "a", "p", "s", "h", "o", "t", "_", "i", "n", "t", "e", "r", "v", "a", "l", "=", "2">>,
      <<"w", "i", "d", "t", "h", "=", "7">>,
      <<"r", "t", "s", "p", "_", "e", "n", "a", "b", "l", "e", "=", "1">>,
      <<"b", "o", "g", "u", "s", "=", "1">>,
      <<"h", "e", "i", "g", "h", "t">>
    }

RECURSIVE JoinPairs(_)
JoinPairs(ps) ==
    IF ps = <<>> THEN <<>>
    ELSE IF Len(ps) = 1 THEN Head(ps)
    ELSE Head(ps) \o <<"&">> \o JoinPairs(Tail(ps))

\* Every body of at most MaxPairs pairs, the empty body among them.
Bodies == { JoinPairs(ps) : ps \in UNION { [1..n -> PairTexts] : n \in 0..MaxPairs } }

----------------------------------------------------------------------------
(* SpecParse: handle_config_update parses the body of one request. *)

InitParse ==
    /\ ProcQuiet /\ BootQuiet /\ VideoQuiet /\ JttQuiet /\ DocQuiet /\ ReadQuiet /\ SafeQuiet
    /\ request = <<>>
    /\ reqbody \in Bodies
    /\ parsed = NotParsed
    /\ handler = "none"
    /\ response = "none"

\* handle_config_update(sock, body) down to the end of its while loop.
ParseRequestBody ==
    /\ ~parsed.done
    /\ parsed' = [done |-> TRUE, updates |-> ParseBody(reqbody)]
    /\ handler' = "handle_config_update"
    /\ UNCHANGED <<request, reqbody, response, procVars, docVars, readVars, safeVars, bootVars, videoVars, jttVars>>

NextParse == ParseRequestBody

SpecParse == InitParse /\ [][NextParse]_vars

\* The pairs of a body: the texts between its '&', the empty ones left out.
RECURSIVE SplitPairs(_)
SplitPairs(s) ==
    IF s = <<>> THEN <<>>
    ELSE LET n == IndexOf(s, "&")
         IN  IF n = 0 THEN <<s>>
             ELSE IF n = 1 THEN SplitPairs(Tail(s))
             ELSE <<SubSeq(s, 1, n - 1)>> \o SplitPairs(SubSeq(s, n + 1, Len(s)))

PairKey(pair) == SubSeq(pair, 1, IndexOf(pair, "=") - 1)
PairValue(pair) == SubSeq(pair, IndexOf(pair, "=") + 1, Len(pair))

\* A pair key=value whose key the handler knows.
Recognised(pair) ==
    HasEq(pair) /\ PairKey(pair) \in {ParamTable[i].param : i \in DOMAIN ParamTable}

\* The value the entry of a recognised pair carries: minutes as seconds,
\* seconds as milliseconds, any other as it is.
Converted(pair) ==
    LET row == Lookup(PairKey(pair))
    IN  IF row.factor > 0 THEN Itoa(atoi(PairValue(pair)) * row.factor)
        ELSE PairValue(pair)

\* One entry for every recognised pair, in the order of the body.
RECURSIVE EntriesOf(_)
EntriesOf(pairs) ==
    IF pairs = <<>> THEN <<>>
    ELSE (IF Recognised(Head(pairs))
          THEN <<Entry(Lookup(PairKey(Head(pairs))).section,
                       Lookup(PairKey(Head(pairs))).key,
                       Converted(Head(pairs)))>>
          ELSE <<>>) \o EntriesOf(Tail(pairs))

ExpectedEntries(b) ==
    LET es == EntriesOf(SplitPairs(b))
    IN  SubSeq(es, 1, Min(Len(es), MAX_UPDATES))

\* A converted pair whose value grows in the conversion, not the last pair.
GrowsInPlace(b) ==
    LET pairs == SplitPairs(b)
    IN  \E i \in 1..(Len(pairs) - 1) :
            /\ Recognised(pairs[i])
            /\ Len(Converted(pairs[i])) > Len(PairValue(pairs[i]))

\* C24 (body to batch): every recognised key=value pair of the body becomes
\* exactly one entry of the batch, in the order of the body, up to 32, with
\* file_duration times 60 and snapshot_interval times 1000; a pair behind a
\* converted pair is processed like any other.
C24_BodyToBatch ==
    parsed.done => parsed.updates = ExpectedEntries(reqbody)

\* The same for the bodies in which no converted value grows ahead of
\* another pair.
C24_BodyToBatch_NoGrowth ==
    parsed.done /\ ~GrowsInPlace(reqbody) => parsed.updates = ExpectedEntries(reqbody)

----------------------------------------------------------------------------
(* SpecRequest: the server loop of main hands one request at a time to      *)
(* handle_request, which checks the Authorization and calls a handler.      *)

AUTH_BASE64 == <<"Y", "W", "R", "t", "a", "W", "4", "6", "b", "H", "V", "j", "a", "2", "Z", "v", "e", "A", "=", "=">>
CLEAN_SIZE == 256    \* char clean[256]
METHOD_MAX == 15     \* "%15s"
PATH_MAX == 255      \* "%255s"

\* strstr: the first index at which pat occurs in s, 0 when it does not.
StrStr(s, pat) ==
    LET at == {i \in 1..(Len(s) - Len(pat) + 1) : SubSeq(s, i, i + Len(pat) - 1) = pat}
    IN  IF at = {} THEN 0 ELSE CHOOSE i \in at : \A j \in at : i <= j

\* sscanf "%Ns": blanks skipped, then at most n characters up to the next blank.
ScanWord(s, n) ==
    LET w == TrimLead(s)
        len == Min(SpanEnd(w, {SP, TAB, CR, NL}) - 1, n)
    IN  [word |-> SubSeq(w, 1, len), rest |-> SubSeq(w, len + 1, Len(w))]

\* The values check_auth(strstr(buffer, "Authorization:")) may return: the
\* text behind the first "Basic " behind the first "Authorization:", up to a
\* blank or the end of a line, is compared with AUTH_BASE64. A text that does
\* not fit clean[256] with its '\0' is written past the array.
check_auth(buffer) ==
    LET a == StrStr(buffer, <<"A", "u", "t", "h", "o", "r", "i", "z", "a", "t", "i", "o", "n", ":">>)
        auth_header == SubSeq(buffer, a, Len(buffer))
        b == StrStr(auth_header, <<"B", "a", "s", "i", "c", SP>>)
        encoded == SubSeq(auth_header, b + 6, Len(auth_header))
        clean == SubSeq(encoded, 1, SpanEnd(encoded, {CR, NL, SP}) - 1)
    IN  IF a = 0 \/ b = 0 THEN {0}
        ELSE IF Len(clean) >= CLEAN_SIZE THEN {0, 1}
        ELSE IF clean = AUTH_BASE64 THEN {1} ELSE {0}

\* char *body = strstr(buffer, "\r\n\r\n"); body += 4: NoBody when there is none.
NoBody == <<"NoBody">>
BodyOf(buffer) ==
    LET n == StrStr(buffer, <<CR, NL, CR, NL>>)
    IN  IF n = 0 THEN NoBody ELSE SubSeq(buffer, n + 4, Len(buffer))

\* The chain of strcmp(path, ...) / strcmp(method, ...) of handle_request:
\* the handler it calls, or what it sends itself.
Route(buffer) ==
    LET m == ScanWord(buffer, METHOD_MAX)
        method == m.word
        path == ScanWord(m.rest, PATH_MAX).word
    IN  IF path = <<"/">> THEN "send_html"
        ELSE IF path = <<"/", "a", "p", "i", "/", "s", "t", "a", "t", "u", "s">> THEN "send_status"
        ELSE IF path = <<"/", "a", "p", "i", "/", "c", "o", "n", "f", "i", "g">>
             THEN IF method = <<"G", "E", "T">> THEN "send_config_data"
                  ELSE IF method = <<"P", "O", "S", "T">>
                       THEN IF BodyOf(buffer) # NoBody THEN "handle_config_update"
                            ELSE "missing_body"
                  ELSE "nothing"
        ELSE IF path = <<"/", "a", "p", "i", "/", "r", "e", "s", "t", "a", "r", "t">> /\ method = <<"P", "O", "S", "T">> THEN "handle_restart_rkipc"
        ELSE "not_found"

\* The requests: a request line, at most one header, an empty line, a body.
Methods == { <<"G", "E", "T">>, <<"P", "O", "S", "T">> }
Paths == { <<"/">>, <<"/", "a", "p", "i", "/", "s", "t", "a", "t", "u", "s">>, <<"/", "a", "p", "i", "/", "c", "o", "n", "f", "i", "g">>, <<"/", "a", "p", "i", "/", "r", "e", "s", "t", "a", "r", "t">>, <<"/", "x">> }

\* No header; the Authorization header with the expected credential; the same
\* with another credential; a header of another name whose value holds the
\* text of an Authorization header.
HeaderLines ==
    { <<>>,
      <<"A", "u", "t", "h", "o", "r", "i", "z", "a", "t", "i", "o", "n", ":", SP, "B", "a", "s", "i", "c", SP, "Y", "W", "R", "t", "a", "W", "4", "6", "b", "H", "V", "j", "a", "2", "Z", "v", "e", "A", "=", "=", CR, NL>>,
      <<"A", "u", "t", "h", "o", "r", "i", "z", "a", "t", "i", "o", "n", ":", SP, "B", "a", "s", "i", "c", SP, "Y", "W", "R", "t", "a", "W", "4", "6", CR, NL>>,
      <<"X", "-", "N", "o", "t", "e", ":", SP, "A", "u", "t", "h", "o", "r", "i", "z", "a", "t", "i", "o", "n", ":", SP, "B", "a", "s", "i", "c", SP, "Y", "W", "R", "t", "a", "W", "4", "6", "b", "H", "V", "j", "a", "2", "Z", "v", "e", "A", "=", "=", CR, NL>> }

\* The bodies of at most MaxReqPairs pairs, and each of them followed by a
\* pair whose value is the text of an Authorization header.
PlainBodies == { JoinPairs(ps) : ps \in UNION { [1..n -> PairTexts] : n \in 0..MaxReqPairs } }
RequestBodies ==
    PlainBodies \cup { JoinPairs(<<b, <<"a", "=", "A", "u", "t", "h", "o", "r", "i", "z", "a", "t", "i", "o", "n", ":", SP, "B", "a", "s", "i", "c", SP, "Y", "W", "R", "t", "a", "W", "4", "6", "b", "H", "V", "j", "a", "2", "Z", "v", "e", "A", "=", "=">>>>) : b \in PlainBodies \ {<<>>} }
                \cup { <<"a", "=", "A", "u", "t", "h", "o", "r", "i", "z", "a", "t", "i", "o", "n", ":", SP, "B", "a", "s", "i", "c", SP, "Y", "W", "R", "t", "a", "W", "4", "6", "b", "H", "V", "j", "a", "2", "Z", "v", "e", "A", "=", "=">> }

HttpRequests ==
    { m \o <<SP>> \o p \o <<SP, "H", "T", "T", "P", "/", "1", ".", "1", CR, NL>> \o h \o <<CR, NL>> \o b :
        m \in Methods, p \in Paths, h \in HeaderLines, b \in RequestBodies }

InitRequest ==
    /\ ProcQuiet /\ BootQuiet /\ VideoQuiet /\ JttQuiet /\ ReadQuiet /\ ReqQuiet
    /\ doc = StartDoc
    /\ prev = doc
    /\ dreq = <<>>
    /\ dfn = "none"
    /\ napplied = 0
    /\ sw = "serve"
    /\ caller = "none"
    /\ updates = <<>>
    /\ retries = 0
    /\ service \in {"running", "absent"}
    /\ signals = <<>>
    /\ npolls = 0
    /\ seen = "none"
    /\ nwritten = 0
    /\ nlaunched = 0
    /\ marker = TRUE
    /\ success = -1
    /\ reported = -1
    /\ nreq = 0
    /\ wfaults = 0

\* What handle_request does with buffer once check_auth has returned ok: the
\* handler it calls, the body and the updates[] of handle_config_update, and
\* the response when it is sent before the handler returns to the loop.
Dispatch(buffer, ok) ==
    LET route == IF ok = 0 THEN "unauthorized" ELSE Route(buffer)
        b == IF route = "handle_config_update" THEN BodyOf(buffer) ELSE <<>>
        u == IF route = "handle_config_update" /\ b # <<>>
             THEN [done |-> TRUE, updates |-> ParseBody(b)]
             ELSE NotParsed
    IN  [handler |-> IF route \in {"unauthorized", "missing_body", "nothing", "not_found"}
                     THEN "none" ELSE route,
         reqbody |-> b,
         parsed |-> u,
         response |->
             CASE route = "unauthorized" -> "401"
               [] route = "send_html" -> "html"
               [] route = "send_status" -> "status"
               [] route = "send_config_data" -> "config"
               [] route = "missing_body" -> "error"
               [] route = "not_found" -> "404"
               [] route = "handle_config_update" /\ b = <<>> -> "error"
               [] route = "handle_config_update" /\ b # <<>> /\ u.updates = <<>> -> "failure"
               [] OTHER -> "none"]

\* handle_request on the request recv put into buffer: check_auth, then the
\* handler of the path and method. handle_config_update goes on to
\* stop_rkipc() when it found an update; handle_restart_rkipc kills and
\* launches rkipc and tells whether it runs; the others only send.
HandleRequest ==
    /\ sw = "serve"
    /\ nreq < MaxRequests
    /\ nreq' = nreq + 1
    /\ \E buffer \in HttpRequests : \E ok \in check_auth(buffer) :
          LET out == Dispatch(buffer, ok)
          IN  /\ request' = buffer
              /\ handler' = out.handler
              /\ reqbody' = out.reqbody
              /\ parsed' = out.parsed
              /\ IF out.handler = "handle_config_update" /\ out.parsed.updates # <<>>
                 THEN /\ Enter("update", out.parsed.updates)
                      /\ sw' = "stop_rkipc"
                      /\ response' = "none"
                      /\ reported' = -1
                      /\ service' = service
                 ELSE IF out.handler = "handle_restart_rkipc"
                 THEN /\ caller' = "restart"
                      /\ updates' = <<>>
                      /\ signals' = <<"TERM">>
                      /\ npolls' = 0
                      /\ seen' = "none"
                      /\ nwritten' = 0
                      /\ nlaunched' = 1
                      /\ service' \in {"running", "absent"}
                      /\ response' = IF service' = "running" THEN "success" ELSE "failure"
                      /\ reported' = -1
                      /\ sw' = sw
                 ELSE /\ Enter("none", <<>>)
                      /\ response' = out.response
                      /\ reported' = IF out.response \in {"error", "failure"} THEN 0 ELSE -1
                      /\ service' = service
                      /\ sw' = sw
    /\ success' = -1
    /\ UNCHANGED <<retries, marker, wfaults, procVars, docVars, readVars, bootVars, videoVars, jttVars>>

\* The steps of handle_config_update behind its parsing of the body.
UpdateStep == StopSignal \/ StopPoll \/ StopForce \/ WriteBatch \/ Launch \/ Respond

NextRequest == HandleRequest \/ UpdateStep \/ ServiceExits

SpecRequest == InitRequest /\ [][NextRequest]_vars

----------------------------------------------------------------------------
(* Claims C25, C26, checked under SpecRequest *)

\* A body with no pair the handler knows, the empty body among them.
NoRecognisedPair(b) ==
    \A i \in DOMAIN SplitPairs(b) : ~Recognised(SplitPairs(b)[i])

\* C25 (a request without updates changes nothing): when handle_config_update
\* is called with a body that is empty or holds no recognised parameter, rkipc
\* is neither signalled nor launched, the configuration file is not locked and
\* not written, the handler returns to the server loop at once and the
\* response tells failure.
C25_NoUpdatesNoEffect ==
    [][nreq' > nreq /\ handler' = "handle_config_update" /\ NoRecognisedPair(reqbody') =>
          /\ signals' = <<>> /\ nlaunched' = 0 /\ nwritten' = 0
          /\ service' = service
          /\ doc' = doc /\ file' = file /\ ino' = ino /\ held' = held
          /\ sw' = "serve"
          /\ response' \in {"error", "failure"} /\ reported' = 0
      ]_vars

\* The handler was called with a body of one pair it does not know while
\* rkipc ran: rkipc still runs, the file is as it was, the response tells
\* failure.
C25_Witness ==
    /\ handler = "handle_config_update"
    /\ reqbody # <<>> /\ HasEq(reqbody) /\ NoRecognisedPair(reqbody)
    /\ response = "failure"
    /\ service = "running" /\ signals = <<>> /\ doc = StartDoc

\* The lines of the head of a request: the text before the first empty line,
\* cut at every CR NL.
RECURSIVE HeadLines(_)
HeadLines(s) ==
    LET n == StrStr(s, <<CR, NL>>)
    IN  IF n = 0 THEN <<s>>
        ELSE <<SubSeq(s, 1, n - 1)>> \o HeadLines(SubSeq(s, n + 2, Len(s)))

HeadOf(buffer) ==
    LET n == StrStr(buffer, <<CR, NL, CR, NL>>)
    IN  IF n = 0 THEN buffer ELSE SubSeq(buffer, 1, n - 1)

\* The request carries an Authorization header whose Basic credential is the
\* expected one: a line of its head, behind the request line, that reads
\* "Authorization:", blanks, "Basic", blanks, AUTH_BASE64.
HasAuthHeader(buffer) ==
    LET lines == HeadLines(HeadOf(buffer))
        name == <<"A", "u", "t", "h", "o", "r", "i", "z", "a", "t", "i", "o", "n", ":">>
    IN  \E i \in 2..Len(lines) :
            /\ SubSeq(lines[i], 1, Len(name)) = name
            /\ LET v == trim_string(SubSeq(lines[i], Len(name) + 1, Len(lines[i])))
               IN  /\ SubSeq(v, 1, 5) = <<"B", "a", "s", "i", "c">>
                   /\ trim_string(SubSeq(v, 6, Len(v))) = AUTH_BASE64
                   /\ Len(v) > 5 /\ v[6] = SP

\* The expected credential stands somewhere in the request behind the texts
\* "Authorization:" and "Basic ".
HasAuthText(buffer) ==
    LET a == StrStr(buffer, <<"A", "u", "t", "h", "o", "r", "i", "z", "a", "t", "i", "o", "n", ":">>)
        rest == SubSeq(buffer, a, Len(buffer))
    IN  a # 0 /\ StrStr(rest, <<"B", "a", "s", "i", "c", SP>> \o AUTH_BASE64) # 0

\* C26 (authentication gate): a request that carries no Authorization header
\* with the expected Basic credential gets the 401 response and nothing else:
\* no handler is called, rkipc is neither signalled nor launched, the
\* configuration file is not written.
C26_AuthGate ==
    [][nreq' > nreq /\ ~HasAuthHeader(request') =>
          /\ handler' = "none" /\ response' = "401"
          /\ signals' = <<>> /\ nlaunched' = 0 /\ service' = service
          /\ sw' = "serve" /\ doc' = doc
      ]_vars

\* The same for the requests that hold the expected credential nowhere.
C26_AuthGate_Text ==
    [][nreq' > nreq /\ ~HasAuthText(request') =>
          /\ handler' = "none" /\ response' = "401"
          /\ signals' = <<>> /\ nlaunched' = 0 /\ service' = service
          /\ sw' = "serve" /\ doc' = doc
      ]_vars

----------------------------------------------------------------------------
(* SpecBoot: the program is started, runs check_and_migrate_config, reaches *)
(* the server loop, and is started again later; the marker file and the     *)
(* configuration file stay as the start before left them.                   *)

InitBoot == InitSafe

\* The program, in its server loop, ends (SIGTERM, reboot of the device) and
\* is started again: main runs from its first line.
Reboot ==
    /\ sw = "serve"
    /\ nboots < MaxBoots
    /\ nboots' = nboots + 1
    /\ sw' = "boot"
    /\ service' \in {"running", "absent"}
    /\ UNCHANGED <<caller, updates, retries, signals, npolls, seen, nwritten, nlaunched,
                   marker, success, reported, nreq, wfaults, nmigrated,
                   procVars, docVars, readVars, reqVars, videoVars, jttVars>>

\* The steps of check_and_migrate_config behind its test of the marker.
MigrateStep == StopSignal \/ StopPoll \/ StopForce \/ MigrateWrite \/ Launch \/ CreateMarker

NextBoot == CheckAndMigrate \/ MigrateStep \/ ServiceExits \/ Reboot

SpecBoot == InitBoot /\ [][NextBoot]_vars

\* C27 (one-time migration): a start that finds the marker neither signals
\* rkipc nor writes a key; a start that does not find it stops rkipc, writes
\* the five defaults, launches rkipc once and then creates the marker; over
\* any sequence of starts the defaults are written in at most one.
C27_MigratesOnce ==
    /\ [](nmigrated <= 1)
    /\ [][/\ sw = "boot" /\ marker =>
                sw' = "serve" /\ signals' = signals /\ doc' = doc /\ nmigrated' = nmigrated
          /\ sw = "boot" /\ ~marker => sw' = "stop_rkipc" /\ signals' = <<>>
          /\ marker' # marker =>
                /\ marker' /\ caller = "migrate"
                /\ nwritten = Len(MigrationWrites) /\ nlaunched = 1 /\ StopReturned
         ]_vars

\* The same, but for the number of starts that write: a start writes the
\* defaults only when it does not find the marker.
C27_MigratesWithoutMarker ==
    [][/\ sw = "boot" /\ marker =>
             sw' = "serve" /\ signals' = signals /\ doc' = doc /\ nmigrated' = nmigrated
       /\ sw = "boot" /\ ~marker => sw' = "stop_rkipc" /\ signals' = <<>>
       /\ marker' # marker =>
             /\ marker' /\ caller = "migrate"
             /\ nwritten = Len(MigrationWrites) /\ nlaunched = 1 /\ StopReturned
       /\ nmigrated' > nmigrated => ~marker /\ caller = "migrate"
       /\ doc' # doc => ~marker
      ]_vars

(***************************************************************************)
(* The video program (src/unnamed/part_003): the frame queue, the camera   *)
(* thread that fills it, the rtsp and record threads that empty it, the    *)
(* signal handler and main.                                                *)
(*                                                                         *)
(* The heap is the set of the addresses that are allocated.  malloc        *)
(* returns NULL or any address that is not allocated, so an address that   *)
(* was freed can come back.  free of an address that is not allocated and  *)
(* memcpy from such an address are undefined; the model records them in    *)
(* doublefree and freedread and goes on with the heap unchanged.           *)
(*                                                                         *)
(* Every function of the queue holds q->mutex from its first statement to  *)
(* its return, so each is one step; pthread_cond_wait gives the mutex up   *)
(* and is the one place where a call is cut in two.  A waiting thread      *)
(* goes on only when pthread_cond_signal or pthread_cond_broadcast picks   *)
(* it: POSIX permits spurious wakeups and promises none.                   *)
(***************************************************************************)

\* malloc(size): the values the call can return on heap h.
malloc(h) == {0} \cup (Addrs \ h)

\* free(p) of the C library on heap h.
free(h, p) == h \ {p}

\* pthread_t of a thread that has returned, or that main never created
\* (if (ENABLE_RTSP) pthread_create ...; if (ENABLE_RTSP) pthread_join ...).
Returned(t) == tpc[t] \in {"done", "off"}

\* main up to the pthread_create calls: signal(), frame_queue_init(&g_frame_queue,
\* VIDEO_FPS * 2), the camera thread and the consumers the configuration enables.
InitVideo ==
    /\ ProcQuiet /\ BootQuiet /\ JttQuiet /\ DocQuiet /\ ReadQuiet /\ SafeQuiet /\ ReqQuiet
    /\ frames = [i \in 0..(QueueCapacity - 1) |-> 0]
    /\ read_idx = 0
    /\ write_idx = 0
    /\ active = TRUE
    /\ g_running = TRUE
    /\ heap = {}
    /\ tpc \in { f \in [Threads -> {"loop", "off", "join_camera"}] :
                   /\ f["main"] = "join_camera"
                   /\ f["camera"] = "loop"
                   /\ \A c \in Consumers : f[c] \in {"loop", "off"} }
    /\ waiters = {}
    /\ popped = [c \in Consumers |-> 0]
    /\ doublefree = FALSE
    /\ freedread = FALSE
    /\ dropped = FALSE

\* signal_handler: g_running = 0, and nothing else.
signal_handler ==
    /\ g_running
    /\ ~Returned("main")
    /\ g_running' = FALSE
    /\ UNCHANGED <<frames, read_idx, write_idx, active, heap, tpc, waiters, popped,
                   doublefree, freedread, dropped,
                   procVars, docVars, readVars, safeVars, reqVars, bootVars, jttVars>>

\* camera_thread: while (g_running) { usleep(...); ... the frame is built ...
CameraLoop ==
    /\ tpc["camera"] = "loop"
    /\ tpc' = [tpc EXCEPT !["camera"] = IF g_running THEN "push" ELSE "done"]
    /\ UNCHANGED <<frames, read_idx, write_idx, active, g_running, heap, waiters, popped,
                   doublefree, freedread, dropped,
                   procVars, docVars, readVars, safeVars, reqVars, bootVars, jttVars>>

\* pthread_cond_signal(&q->cond) by thread t, which goes on at position at:
\* one of the waiting threads, if there is one, leaves pthread_cond_wait.
CondSignal(t, at) ==
    IF waiters = {}
    THEN /\ tpc' = [tpc EXCEPT ![t] = at]
         /\ waiters' = waiters
    ELSE \E w \in waiters :
            /\ tpc' = [tpc EXCEPT ![t] = at, ![w] = "pop"]
            /\ waiters' = waiters \ {w}

\* frame_queue_push, called by camera_thread.  On a full queue the oldest
\* frame is freed and read_idx moves on; q->frames[read_idx].data keeps the
\* freed address.  Then the slot at write_idx is freed if it is not NULL and
\* gets the result of malloc; when that is NULL the call returns -1 with
\* write_idx where it was and nobody signalled.
frame_queue_push ==
    /\ tpc["camera"] = "push"
    /\ LET next_idx == (write_idx + 1) % QueueCapacity
           full == next_idx = read_idx
           oldest == frames[read_idx]
           heap1 == IF full /\ oldest # 0 THEN free(heap, oldest) ELSE heap
           bad1 == full /\ oldest # 0 /\ oldest \notin heap
           slot == frames[write_idx]
           heap2 == IF slot # 0 THEN free(heap1, slot) ELSE heap1
           bad2 == slot # 0 /\ slot \notin heap1
       IN  /\ read_idx' = IF full THEN (read_idx + 1) % QueueCapacity ELSE read_idx
           /\ dropped' = (dropped \/ full)
           /\ doublefree' = (doublefree \/ bad1 \/ bad2)
           /\ \E a \in malloc(heap2) :
                /\ frames' = [frames EXCEPT ![write_idx] = a]
                /\ IF a = 0
                   THEN /\ heap' = heap2
                        /\ write_idx' = write_idx
                        /\ tpc' = [tpc EXCEPT !["camera"] = "loop"]
                        /\ waiters' = waiters
                   ELSE /\ heap' = heap2 \cup {a}
                        /\ write_idx' = next_idx
                        /\ CondSignal("camera", "loop")
    /\ UNCHANGED <<active, g_running, popped, freedread,
                   procVars, docVars, readVars, safeVars, reqVars, bootVars, jttVars>>

\* rtsp_thread, record_thread: while (g_running) { ... frame_queue_pop ...
ConsumerLoop(c) ==
    /\ tpc[c] = "loop"
    /\ tpc' = [tpc EXCEPT ![c] = IF g_running THEN "pop" ELSE "done"]
    /\ UNCHANGED <<frames, read_idx, write_idx, active, g_running, heap, waiters, popped,
                   doublefree, freedread, dropped,
                   procVars, docVars, readVars, safeVars, reqVars, bootVars, jttVars>>

\* frame_queue_pop, called by consumer c, from the lock (or from the return
\* of pthread_cond_wait, which holds the mutex again) to the next wait or to
\* the return.  A return of -1 makes the caller break out of its loop.
frame_queue_pop(c) ==
    /\ tpc[c] = "pop"
    /\ IF read_idx = write_idx /\ active /\ g_running
       THEN /\ tpc' = [tpc EXCEPT ![c] = "wait"]
            /\ waiters' = waiters \cup {c}
            /\ UNCHANGED <<read_idx, heap, popped, freedread>>
       ELSE IF ~active \/ ~g_running
       THEN /\ tpc' = [tpc EXCEPT ![c] = "done"]
            /\ UNCHANGED <<read_idx, heap, waiters, popped, freedread>>
       ELSE \E a \in malloc(heap) :
              IF a = 0
              THEN /\ tpc' = [tpc EXCEPT ![c] = "done"]
                   /\ UNCHANGED <<read_idx, heap, waiters, popped, freedread>>
              ELSE /\ heap' = heap \cup {a}
                   /\ popped' = [popped EXCEPT ![c] = a]
                   /\ freedread' = (freedread \/ frames[read_idx] \notin heap)
                   /\ read_idx' = (read_idx + 1) % QueueCapacity
                   /\ tpc' = [tpc EXCEPT ![c] = "use"]
                   /\ waiters' = waiters
    /\ UNCHANGED <<frames, write_idx, active, g_running, doublefree, dropped,
                   procVars, docVars, readVars, safeVars, reqVars, bootVars, jttVars>>

\* rtsp_thread, record_thread: the frame is used, then free(frame.data).
ConsumerFree(c) ==
    /\ tpc[c] = "use"
    /\ heap' = free(heap, popped[c])
    /\ doublefree' = (doublefree \/ popped[c] \notin heap)
    /\ popped' = [popped EXCEPT ![c] = 0]
    /\ tpc' = [tpc EXCEPT ![c] = "loop"]
    /\ UNCHANGED <<frames, read_idx, write_idx, active, g_running, waiters,
                   freedread, dropped,
                   procVars, docVars, readVars, safeVars, reqVars, bootVars, jttVars>>

\* main: pthread_join(cam_tid), then the joins of the consumers it created.
MainJoin ==
    \/ /\ tpc["main"] = "join_camera"
       /\ Returned("camera")
       /\ tpc' = [tpc EXCEPT !["main"] = "join_rtsp"]
       /\ UNCHANGED <<frames, read_idx, write_idx, active, g_running, heap, waiters, popped,
                      doublefree, freedread, dropped,
                      procVars, docVars, readVars, safeVars, reqVars, bootVars, jttVars>>
    \/ /\ tpc["main"] = "join_rtsp"
       /\ Returned("rtsp")
       /\ tpc' = [tpc EXCEPT !["main"] = "join_record"]
       /\ UNCHANGED <<frames, read_idx, write_idx, active, g_running, heap, waiters, popped,
                      doublefree, freedread, dropped,
                      procVars, docVars, readVars, safeVars, reqVars, bootVars, jttVars>>
    \/ /\ tpc["main"] = "join_record"
       /\ Returned("record")
       /\ tpc' = [tpc EXCEPT !["main"] = "destroy"]
       /\ UNCHANGED <<frames, read_idx, write_idx, active, g_running, heap, waiters, popped,
                      doublefree, freedread, dropped,
                      procVars, docVars, readVars, safeVars, reqVars, bootVars, jttVars>>

\* frame_queue_destroy, called by main behind its joins: active = 0, every
\* waiting thread is woken, every slot that is not NULL is freed, then the
\* array itself; main returns.
frame_queue_destroy ==
    /\ tpc["main"] = "destroy"
    /\ active' = FALSE
    /\ tpc' = [t \in Threads |-> IF t = "main" THEN "done"
                                 ELSE IF t \in waiters THEN "pop" ELSE tpc[t]]
    /\ waiters' = {}
    /\ heap' = heap \ { frames[i] : i \in 0..(QueueCapacity - 1) }
    /\ doublefree' = \/ doublefree
                     \/ \E i \in 0..(QueueCapacity - 1) : frames[i] # 0 /\ frames[i] \notin heap
                     \/ \E i, j \in 0..(QueueCapacity - 1) :
                            i # j /\ frames[i] # 0 /\ frames[i] = frames[j]
    /\ frames' = [i \in 0..(QueueCapacity - 1) |-> 0]
    /\ UNCHANGED <<read_idx, write_idx, g_running, popped, freedread, dropped,
                   procVars, docVars, readVars, safeVars, reqVars, bootVars, jttVars>>

camera_thread == CameraLoop \/ frame_queue_push

consumer_thread(c) == ConsumerLoop(c) \/ frame_queue_pop(c) \/ ConsumerFree(c)

NextVideo ==
    \/ signal_handler
    \/ CameraLoop
    \/ frame_queue_push
    \/ \E c \in Consumers : ConsumerLoop(c)
    \/ \E c \in Consumers : frame_queue_pop(c)
    \/ \E c \in Consumers : ConsumerFree(c)
    \/ MainJoin
    \/ frame_queue_destroy

SpecVideo == InitVideo /\ [][NextVideo]_vars

\* The scheduler runs every thread that can take a step; a signal may never come.
SpecVideoFair ==
    /\ SpecVideo
    /\ WF_vars(camera_thread)
    /\ \A c \in Consumers : WF_vars(consumer_thread(c))
    /\ WF_vars(MainJoin \/ frame_queue_destroy)

(***************************************************************************)
(* Claim C28, checked under SpecVideo.                                     *)
(***************************************************************************)

\* Every slot pointer that is not NULL refers to a live allocation.
SlotsLive == \A i \in 0..(QueueCapacity - 1) : frames[i] # 0 => frames[i] \in heap

\* C28: over any interleaving of frame_queue_push calls (pushes onto a full
\* queue included) and frame_queue_pop calls, no buffer is freed twice, no
\* freed buffer is read, and every slot pointer that is not NULL refers to
\* a live allocation.
C28_QueueMemorySafe == ~doublefree /\ ~freedread /\ SlotsLive

\* What holds: the queue is memory safe as long as no push has found it full.
C28_SafeUntilDrop == ~dropped => (~doublefree /\ ~freedread /\ SlotsLive)

\* Each part of C28 alone; each is violated behind a push onto a full queue.
C28_NoDoubleFree == ~doublefree

C28_NoFreedRead == ~freedread

C28_SlotsLive == SlotsLive

(***************************************************************************)
(* Claim C29, checked under SpecVideoFair.                                 *)
(***************************************************************************)

AllReturned == \A t \in Threads : Returned(t)

\* C29: after a termination signal has set g_running to 0, the camera
\* thread and every consumer thread eventually return, a consumer blocked
\* in frame_queue_pop on an empty queue included, so that the joins of main
\* complete and the program exits.
C29_ShutdownTerminates == (~g_running) ~> AllReturned

\* What holds: the camera thread returns behind every signal, and the whole
\* program does when the signal finds no consumer in pthread_cond_wait.
C29_CameraReturns == (~g_running) ~> Returned("camera")

C29_TerminatesUnlessWaiting == (~g_running /\ waiters = {}) ~> AllReturned

\* A consumer that waits when g_running is 0 waits for ever once the camera
\* thread has returned: only frame_queue_push and frame_queue_destroy wake it.
C29_WaiterStaysBlocked ==
    [][(~g_running /\ Returned("camera")) => (waiters' = waiters)]_vars

(***************************************************************************)
(* The JT/T 1078 encoder (src/src/main.c, src/unnamed/part_004): a frame   *)
(* is cut into packets of at most JTT1078_MAX_PAYLOAD_SIZE bytes, each     *)
(* built by jtt1078_create_packet and handed to the callback by            *)
(* jtt1078_send_packet.  The fields of the header that the byte order      *)
(* helpers convert are kept as the bytes they put on the wire.             *)
(***************************************************************************)

JTT1078_PKT_ATOMIC == 0
JTT1078_PKT_FIRST == 1
JTT1078_PKT_LAST == 2
JTT1078_PKT_MIDDLE == 3
JTT1078_DATA_TYPE_VIDEO == 0
JTT1078_DATA_TYPE_VIDEO_P == 1
JTT1078_DATA_TYPE_VIDEO_B == 2
JTT1078_MAX_PACKET_SIZE == 950
JTT1078_HEADER_SIZE == 30
JTT1078_MAX_PAYLOAD_SIZE == JTT1078_MAX_PACKET_SIZE - JTT1078_HEADER_SIZE

UINT16 == 65536

\* jtt1078_htons: the two bytes of val, the high one first.
jtt1078_htons(val) == <<(val \div 256) % 256, val % 256>>

\* The value a receiver reads from two bytes of the wire.
ntohs(b) == b[1] * 256 + b[2]

\* The frames the encoder is called with: frame->size and frame->data (the
\* byte at each place depends on the place), I, P and B frames.
FrameSizes ==
    {0} \cup { k * JTT1078_MAX_PAYLOAD_SIZE + d :
                 k \in 0..(MaxChunks - 1), d \in {1, JTT1078_MAX_PAYLOAD_SIZE} }

FrameData(n) == [i \in 1..n |-> (7 * i + n) % 256]

VideoFrames ==
    { [size |-> n, data |-> FrameData(n), is_keyframe |-> k[1], frame_type |-> k[2]] :
        n \in FrameSizes,
        k \in { <<TRUE, JTT1078_DATA_TYPE_VIDEO>>, <<FALSE, JTT1078_DATA_TYPE_VIDEO_P>>,
                <<FALSE, JTT1078_DATA_TYPE_VIDEO_B>> } }

\* encoder->packet_seq is 0 behind jtt1078_encoder_init and any uint16_t
\* value behind the packets sent before; the model starts at the wrap.
InitialSeqs == {0, UINT16 - 2, UINT16 - 1}

InitJtt ==
    /\ ProcQuiet /\ BootQuiet /\ VideoQuiet /\ DocQuiet /\ ReadQuiet /\ SafeQuiet /\ ReqQuiet
    /\ packet_seq \in InitialSeqs
    /\ vframe = NoFrame
    /\ remaining = 0
    /\ offset = 0
    /\ packet_count = 0
    /\ total_packets = 0
    /\ packets = <<>>
    /\ jret = NoReturn
    /\ jpc = "idle"
    /\ nframes = 0

\* jtt1078_encode_video_frame: the data type of the frame.
DataType(f) ==
    IF f.is_keyframe \/ f.frame_type = JTT1078_DATA_TYPE_VIDEO
    THEN JTT1078_DATA_TYPE_VIDEO
    ELSE IF f.frame_type = JTT1078_DATA_TYPE_VIDEO_P
    THEN JTT1078_DATA_TYPE_VIDEO_P
    ELSE JTT1078_DATA_TYPE_VIDEO_B

\* Mutant of Subpackage: the test of the first packet comes first.
Subpackage_FirstBeforeAtomic(total, off, chunk, rem) ==
    IF off = 0 THEN JTT1078_PKT_FIRST
    ELSE IF total = 1 THEN JTT1078_PKT_ATOMIC
    ELSE IF chunk = rem THEN JTT1078_PKT_LAST
    ELSE JTT1078_PKT_MIDDLE

\* jtt1078_encode_video_frame: the sub-package flag of the packet at offset
\* off, of chunk bytes, with rem bytes left.
Subpackage(total, off, chunk, rem) ==
    IF total = 1 THEN JTT1078_PKT_ATOMIC
    ELSE IF off = 0 THEN JTT1078_PKT_FIRST
    ELSE IF chunk = rem THEN JTT1078_PKT_LAST
    ELSE JTT1078_PKT_MIDDLE

\* jtt1078_create_packet(encoder, &packet, data, data_len, data_type,
\* subpackage) with encoder->packet_seq = seq: the value it returns, the
\* packet and encoder->packet_seq behind the call.  subpackage is a field of
\* two bits.
jtt1078_create_packet(seq, data, data_len, data_type, subpackage) ==
    IF data_len > JTT1078_MAX_PAYLOAD_SIZE
    THEN [ret |-> -1, seq |-> seq, packet |-> <<>>]
    ELSE [ret |-> 0,
          seq |-> (seq + 1) % UINT16,
          packet |-> [m |-> IF subpackage = JTT1078_PKT_ATOMIC \/ subpackage = JTT1078_PKT_LAST
                            THEN 1 ELSE 0,
                      packet_seq |-> jtt1078_htons(seq),
                      data_type |-> data_type,
                      subpackage |-> subpackage % 4,
                      data_length |-> jtt1078_htons(data_len),
                      payload |-> SubSeq(data, 1, data_len)]]

\* jtt1078_encode_video_frame up to its while: a call with frame f.  size,
\* remaining and offset are uint32_t; the sums of the model stay far below
\* 2^32, the sizes of FrameSizes being at most MaxChunks packets.
EncodeCall(f) ==
    /\ jpc = "idle"
    /\ nframes < MaxFrames
    /\ nframes' = nframes + 1
    /\ vframe' = f
    /\ remaining' = f.size
    /\ offset' = 0
    /\ packet_count' = 0
    /\ total_packets' =
         (f.size + JTT1078_MAX_PAYLOAD_SIZE - 1) \div JTT1078_MAX_PAYLOAD_SIZE
    /\ IF f.size > 0
       THEN jpc' = "loop" /\ jret' = NoReturn
       ELSE jpc' = "idle" /\ jret' = 0
    /\ UNCHANGED <<packet_seq, packets,
                   procVars, docVars, readVars, safeVars, reqVars, bootVars, videoVars>>

\* One turn of the while of jtt1078_encode_video_frame: the packet is
\* built, jtt1078_send_packet hands it to the callback (sent: malloc gave
\* the buffer and the callback returned 0 or more), and the call returns
\* when the packet was not sent or nothing remains.
EncodeStep ==
    /\ jpc = "loop"
    /\ LET chunk_size == (IF remaining > JTT1078_MAX_PAYLOAD_SIZE
                          THEN JTT1078_MAX_PAYLOAD_SIZE ELSE remaining) % UINT16
           subpackage == Subpackage(total_packets, offset, chunk_size, remaining)
           made == jtt1078_create_packet(packet_seq,
                                         SubSeq(vframe.data, offset + 1, Len(vframe.data)),
                                         chunk_size, DataType(vframe), subpackage)
       IN  /\ packet_seq' = made.seq
           /\ IF made.ret < 0
              THEN /\ jret' = -1
                   /\ jpc' = "idle"
                   /\ UNCHANGED <<packets, offset, remaining, packet_count>>
              ELSE \E sent \in BOOLEAN :
                     /\ packets' = Append(packets,
                                          [frame |-> nframes, sent |-> sent,
                                           header |-> made.packet])
                     /\ IF ~sent
                        THEN /\ jret' = -1
                             /\ jpc' = "idle"
                             /\ UNCHANGED <<offset, remaining, packet_count>>
                        ELSE /\ offset' = offset + chunk_size
                             /\ remaining' = remaining - chunk_size
                             /\ packet_count' = packet_count + 1
                             /\ IF remaining - chunk_size > 0
                                THEN jpc' = "loop" /\ jret' = jret
                                ELSE jpc' = "idle" /\ jret' = packet_count + 1
    /\ UNCHANGED <<vframe, total_packets, nframes,
                   procVars, docVars, readVars, safeVars, reqVars, bootVars, videoVars>>

NextJtt ==
    \/ \E f \in VideoFrames : EncodeCall(f)
    \/ EncodeStep

SpecJtt == InitJtt /\ [][NextJtt]_vars

(***************************************************************************)
(* Claim C30, checked under SpecJtt.                                       *)
(***************************************************************************)

\* The least k with n <= k * d.
Ceil(n, d) == CHOOSE k \in 0..n : (k - 1) * d < n /\ n <= k * d

\* The packets of the last call, as built, and those of them the callback took.
BuiltNow == SelectSeq(packets, LAMBDA p : p.frame = nframes)

SentNow == SelectSeq(BuiltNow, LAMBDA p : p.sent)

Payloads(ps) == Concat([i \in 1..Len(ps) |-> ps[i].header.payload])

\* The last call was made with a frame of size n > 0 and has returned.
EncodeReturned == jpc = "idle" /\ nframes > 0 /\ vframe.size > 0

\* ATOMIC alone, otherwise FIRST, MIDDLE ..., LAST; the marker bit on ATOMIC and LAST.
FlagsInOrder(ps) ==
    \A i \in 1..Len(ps) :
        /\ ps[i].header.subpackage =
             IF Len(ps) = 1 THEN JTT1078_PKT_ATOMIC
             ELSE IF i = 1 THEN JTT1078_PKT_FIRST
             ELSE IF i = Len(ps) THEN JTT1078_PKT_LAST
             ELSE JTT1078_PKT_MIDDLE
        /\ ps[i].header.m = 1 <=>
             ps[i].header.subpackage \in {JTT1078_PKT_ATOMIC, JTT1078_PKT_LAST}

SeqByOne(ps) ==
    \A i \in 1..(Len(ps) - 1) :
        ntohs(ps[i + 1].header.packet_seq) = (ntohs(ps[i].header.packet_seq) + 1) % UINT16

Fragmented(ps) ==
    /\ Len(ps) = Ceil(vframe.size, JTT1078_MAX_PAYLOAD_SIZE)
    /\ \A i \in 1..Len(ps) :
          /\ Len(ps[i].header.payload) <= JTT1078_MAX_PAYLOAD_SIZE
          /\ ntohs(ps[i].header.data_length) = Len(ps[i].header.payload)
    /\ Payloads(ps) = vframe.data
    /\ FlagsInOrder(ps)

\* C30: for every frame of size n > 0, jtt1078_encode_video_frame sends
\* exactly ceil(n / 920) packets and returns that count; each payload is at
\* most 920 bytes and the payloads in send order make up the frame; the
\* flag is ATOMIC for one packet, otherwise FIRST, MIDDLE ..., LAST; the
\* marker bit is 1 exactly on ATOMIC and LAST; the sequence number of
\* consecutive packets grows by 1 modulo 2^16.
C30_Fragmentation ==
    EncodeReturned =>
        /\ jret = Ceil(vframe.size, JTT1078_MAX_PAYLOAD_SIZE)
        /\ Fragmented(SentNow)
        /\ SeqByOne(SelectSeq(packets, LAMBDA p : p.sent))

\* C30 as amended: the same of every call in which the callback took every
\* packet; a call in which it did not returns -1 behind the first such
\* packet, the packets sent before being the first ones of the frame; and
\* the sequence numbers of the packets grow by 1 modulo 2^16 in the order
\* jtt1078_create_packet built them.
C30_FragmentationWhenSent ==
    /\ EncodeReturned =>
         /\ jret # -1 =>
              /\ jret = Ceil(vframe.size, JTT1078_MAX_PAYLOAD_SIZE)
              /\ BuiltNow = SentNow
              /\ Fragmented(SentNow)
         /\ jret = -1 =>
              /\ Len(BuiltNow) = Len(SentNow) + 1
              /\ ~BuiltNow[Len(BuiltNow)].sent
              /\ Len(SentNow) < Ceil(vframe.size, JTT1078_MAX_PAYLOAD_SIZE)
              /\ Payloads(SentNow) =
                   SubSeq(vframe.data, 1, JTT1078_MAX_PAYLOAD_SIZE * Len(SentNow))
    /\ SeqByOne(packets)
    /\ packets # <<>> =>
         packet_seq = (ntohs(packets[Len(packets)].header.packet_seq) + 1) % UINT16

\* A frame of three packets was sent whole, the sequence number wrapping inside it.
C30_Witness ==
    /\ EncodeReturned
    /\ jret = 3
    /\ Len(SentNow) = 3
    /\ ntohs(SentNow[2].header.packet_seq) = UINT16 - 1
    /\ ntohs(SentNow[3].header.packet_seq) = 0

\* A frame of one packet was sent, and a call ended by a packet the callback refused.
C30_WitnessAtomic == EncodeReturned /\ jret = 1 /\ vframe.size = JTT1078_MAX_PAYLOAD_SIZE

C30_WitnessRefused == EncodeReturned /\ jret = -1 /\ Len(SentNow) = 2

====
